---- MODULE Spec2Model ----
(***************************************************************************)
(* lumarr: synchronisation of a Plex watchlist and of Letterboxd lists     *)
(* into Radarr (movies) and Sonarr (series).                               *)
(*                                                                         *)
(* The model follows src/lumarr/db.py (the synced_items ledger and the     *)
(* letterboxd_metadata cache), src/lumarr/api/tmdb.py (reverse lookup),    *)
(* src/lumarr/cli/logic/sync_manager.py (SyncManager), follow_mode.py      *)
(* (_sync_letterboxd_items) and baseline.py (establish_baseline).          *)
(*                                                                         *)
(* Python's None is the string None_; an Optional[str] is "truthy" when it *)
(* is neither None nor the empty string.  A ledger row carries the columns *)
(* the operations read or compare; the AUTOINCREMENT id, the title and the *)
(* synced_at stamp are written but never read back by the operations       *)
(* modelled here and are left out.                                         *)
(***************************************************************************)
EXTENDS Integers, Sequences, FiniteSets, TLC

\* ------------------------------------------------------------------ bounds
\* follow mode: the sleeps of the loop one behaviour may take, and the two
\* intervals (plex.sync_interval, letterboxd.sync_interval) counted in sleeps
MaxTime == 4

PlexInterval == 2

LboxInterval == 3

\* number of passes (SyncManager.sync, _sync_letterboxd_items, baseline)
\* one behaviour may start
MaxPasses == 2
\* largest watchlist one fetch returns
MaxBatch == 3

\* ------------------------------------------------------------- data model
None_ == "None"

Truthy(x) == x # None_ /\ x # ""

MOVIE == "movie"
TV_SHOW == "show"

PENDING == "pending"
SUCCESS == "success"
FAILED == "failed"
SKIPPED == "skipped"

RADARR == "radarr"
SONARR == "sonarr"

ProviderId(tmdb, tvdb, imdb) ==
    [tmdb_id |-> tmdb, tvdb_id |-> tvdb, imdb_id |-> imdb]

\* Optional[float]: WatchlistItem.rating, and the --min-rating option
NoRating == [rated |-> FALSE, value |-> 0]

Rating(v) == [rated |-> TRUE, value |-> v]

WatchlistItem(key, mt, ids, lid, slug) ==
    [rating_key |-> key, media_type |-> mt, provider_ids |-> ids,
     letterboxd_id |-> lid, letterboxd_slug |-> slug, rating |-> NoRating]

SyncResult(it, st, msg, svc) ==
    [rating_key |-> it.rating_key, provider_ids |-> it.provider_ids,
     status |-> st, message |-> msg, target_service |-> svc]

\* ------------------------------------------------- what the sources return
\* Plex watchlist entries: a movie with its TMDB id, a movie known by its
\* IMDB id only, a series with its TVDB id.
PlexCatalog ==
    << WatchlistItem("p1", MOVIE, ProviderId("603", None_, None_), None_, None_),
       WatchlistItem("p2", MOVIE, ProviderId(None_, None_, "tt0133093"), None_, None_),
       WatchlistItem("p3", TV_SHOW, ProviderId(None_, "81189", None_), None_, None_) >>

\* Letterboxd entries: a watchlist entry (film id and slug; its TMDB id is
\* fetched lazily, api/letterboxd.py 250-269).
LetterboxdCatalog ==
    << WatchlistItem("letterboxd-watchlist-u-51700", MOVIE,
                     ProviderId(None_, None_, None_), "51700", "heat-1995") >>

\* A diary entry of the RSS feed (api/letterboxd.py 108-162): the member's
\* rating when there is one, the TMDB id of the feed, neither film id nor
\* slug.
RssEntry(rating) ==
    [WatchlistItem("letterboxd-u-letterboxd-watch-117", MOVIE,
                   ProviderId("550", None_, None_), None_, None_)
       EXCEPT !.rating = rating]

RECURSIVE Pick(_, _)
Pick(catalog, chosen) ==
    IF catalog = <<>> THEN <<>>
    ELSE IF 1 \in chosen
    THEN << Head(catalog) >> \o Pick(Tail(catalog), { i - 1 : i \in chosen \ { 1 } })
    ELSE Pick(Tail(catalog), { i - 1 : i \in chosen })

\* the lists a fetch can return: at most MaxBatch entries of the catalog, in
\* the catalog's order
Watchlists(catalog) ==
    { Pick(catalog, chosen) :
        chosen \in { c \in SUBSET (1..Len(catalog)) : Cardinality(c) <= MaxBatch } }

Keys == { PlexCatalog[i].rating_key : i \in 1..Len(PlexCatalog) }
        \cup { LetterboxdCatalog[i].rating_key : i \in 1..Len(LetterboxdCatalog) }
        \cup { RssEntry(NoRating).rating_key }

Services == { RADARR, SONARR }

\* ------------------------------------------------------------------ db.py
\* one row of synced_items
LedgerRow(key, mt, svc, st, tmdb, tvdb, imdb, err) ==
    [rating_key |-> key, media_type |-> mt, tmdb_id |-> tmdb, tvdb_id |-> tvdb,
     imdb_id |-> imdb, target_service |-> svc, status |-> st,
     error_message |-> err]

\* faulty variants of is_synced: the status compared with the enum member's
\* name instead of its value; the status not compared at all
is_synced_enum_name(rows, key, svc) ==
    Cardinality({ r \in rows : /\ r.rating_key = key
                               /\ r.target_service = svc
                               /\ r.status = "RequestStatus.SUCCESS" }) > 0

is_synced_any_status(rows, key, svc) ==
    Cardinality({ r \in rows : r.rating_key = key /\ r.target_service = svc }) > 0

\* SELECT COUNT(*) ... WHERE rating_key = ? AND target_service = ? AND status = 'success'
is_synced(rows, key, svc) ==
    Cardinality({ r \in rows : /\ r.rating_key = key
                               /\ r.target_service = svc
                               /\ r.status = SUCCESS }) > 0

\* faulty variants of record_sync: the INSERT is never committed; a plain
\* INSERT on a table without the UNIQUE constraint
record_sync_uncommitted(rows, row) == rows

record_sync_append(rows, row) == rows \cup { row }

\* INSERT OR REPLACE under UNIQUE(rating_key, target_service): the rows in
\* conflict are deleted, then the new row is inserted
record_sync(rows, row) ==
    { r \in rows : ~(r.rating_key = row.rating_key
                     /\ r.target_service = row.target_service) } \cup { row }

\* faulty variant of clear_history: DELETE ... WHERE status = 'success'
clear_history_success_only(rows) == { r \in rows : r.status # SUCCESS }

\* DELETE FROM synced_items
clear_history(rows) == {}

\* one row of letterboxd_metadata; fetched_at is kept as "stamped or NULL"
NoMetadata ==
    [found |-> FALSE, letterboxd_id |-> None_, slug |-> None_,
     tmdb_id |-> None_, fetched_at |-> None_]

get_letterboxd_metadata(cache, lid) ==
    IF \E m \in cache : m.letterboxd_id = lid
    THEN CHOOSE m \in cache : m.letterboxd_id = lid
    ELSE NoMetadata

\* INSERT OR REPLACE under PRIMARY KEY letterboxd_id;
\* fetched_at = now if tmdb_id else None
set_letterboxd_metadata(cache, lid, slug, tmdb) ==
    { m \in cache : m.letterboxd_id # lid }
    \cup { [found |-> TRUE, letterboxd_id |-> lid, slug |-> slug, tmdb_id |-> tmdb,
            fetched_at |-> IF Truthy(tmdb) THEN "now" ELSE None_] }

\* ------------------------------------------------------------ api/tmdb.py
\* find_by_external_id returns None (request failed) or the response's JSON,
\* a dict that always carries its result lists: `not result` holds for None
\* only.
NoResponse == [ok |-> FALSE, movie_results |-> <<>>, tv_results |-> <<>>]

FindResponse(movies, shows) ==
    [ok |-> TRUE, movie_results |-> movies, tv_results |-> shows]

FindResults ==
    { NoResponse,
      FindResponse(<<>>, <<>>),
      FindResponse(<< [id |-> "603"] >>, <<>>),
      FindResponse(<< [id |-> ""] >>, <<>>),
      FindResponse(<<>>, << [id |-> "1399", tvdb_id |-> None_] >>),
      FindResponse(<<>>, << [id |-> "1399", tvdb_id |-> "121361"] >>) }

\* what enhance_provider_ids returns, with the external sources it queried
Enhanced(ids, queried) == [provider_ids |-> ids, lookups |-> queried]

\* faulty variant of enhance_provider_ids: no early return for ids that
\* already hold a TMDB id
enhance_provider_ids_always_looks_up(ids, media_type, configured, by_tvdb, by_imdb) ==
    IF ~configured THEN Enhanced(ids, <<>>)
    ELSE
      LET first == IF Truthy(ids.tvdb_id) THEN by_tvdb ELSE NoResponse
          q1 == IF Truthy(ids.tvdb_id) THEN << "tvdb_id" >> ELSE <<>>
          second == ~first.ok /\ Truthy(ids.imdb_id)
          result == IF second THEN by_imdb ELSE first
          q2 == IF second THEN Append(q1, "imdb_id") ELSE q1
      IN  IF ~result.ok THEN Enhanced(ids, q2)
          ELSE IF media_type = "movie" /\ result.movie_results # <<>>
          THEN Enhanced([ids EXCEPT !.tmdb_id = result.movie_results[1].id], q2)
          ELSE Enhanced(ids, q2)

enhance_provider_ids(ids, media_type, configured, by_tvdb, by_imdb) ==
    IF ~configured THEN Enhanced(ids, <<>>)
    ELSE IF Truthy(ids.tmdb_id) THEN Enhanced(ids, <<>>)
    ELSE
      LET first == IF Truthy(ids.tvdb_id) THEN by_tvdb ELSE NoResponse
          q1 == IF Truthy(ids.tvdb_id) THEN << "tvdb_id" >> ELSE <<>>
          second == ~first.ok /\ Truthy(ids.imdb_id)
          result == IF second THEN by_imdb ELSE first
          q2 == IF second THEN Append(q1, "imdb_id") ELSE q1
      IN  IF ~result.ok THEN Enhanced(ids, q2)
          ELSE IF media_type = "movie" /\ result.movie_results # <<>>
          THEN Enhanced([ids EXCEPT !.tmdb_id = result.movie_results[1].id], q2)
          ELSE IF media_type = "show" /\ result.tv_results # <<>>
          THEN LET show == result.tv_results[1]
                   with_tmdb == [ids EXCEPT !.tmdb_id = show.id]
               IN  IF ~Truthy(ids.tvdb_id) /\ Truthy(show.tvdb_id)
                   THEN Enhanced([with_tmdb EXCEPT !.tvdb_id = show.tvdb_id], q2)
                   ELSE Enhanced(with_tmdb, q2)
          ELSE Enhanced(ids, q2)

\* ------------------------------------------------- logic/sync_manager.py
\* The environment of one item: what the Letterboxd film page yields
\* (fetch_tmdb_id_from_page: a TMDB id or None), what TMDB answers to the
\* lookup by TVDB id and by IMDB id, and whether the destination's add call
\* returns ("ok") or raises the destination's error ("error").
\* Only what the item's own fields let the code ask is varied.
Envs(item) ==
    [page : IF Truthy(item.letterboxd_slug) THEN { None_, "949" } ELSE { None_ },
     by_tvdb : IF Truthy(item.provider_ids.tvdb_id) THEN FindResults ELSE { NoResponse },
     by_imdb : IF Truthy(item.provider_ids.imdb_id) THEN FindResults ELSE { NoResponse },
     add : { "ok", "error" }]

\* the result texts (str(e) for a destination error)
MsgRadarrNotConfigured == "Radarr not configured"
MsgSonarrNotConfigured == "Sonarr not configured"
MsgAlreadyRadarr == "Already synced to Radarr"
MsgAlreadySonarr == "Already synced to Sonarr"
MsgMovieConfigureTmdb == "No TMDB ID found - only have IMDB ID. Configure TMDB API key to enable IMDB->TMDB conversion."
MsgMovieLookupFailed == "No TMDB ID found - IMDB lookup failed. Movie may not be in TMDB database."
MsgMovieNoIds == "No TMDB ID or IMDB ID found - required for Radarr"
MsgShowConfigureTmdb == "No TVDB ID found - have other ids. Configure TMDB API key to enable ID conversion."
MsgShowLookupFailed == "No TVDB ID found - TMDB lookup failed. Show may not be in TMDB/TVDB database."
MsgShowNoIds == "No TVDB ID found - required for Sonarr"
MsgDryRunRadarr == "[DRY RUN] Would add to Radarr"
MsgDryRunSonarr == "[DRY RUN] Would add to Sonarr"
MsgAdded == "Successfully added"
MsgAddFailed == "Failed to add"
MsgAlreadySynced == "Already synced"

NoResult ==
    [rating_key |-> None_, provider_ids |-> ProviderId(None_, None_, None_),
     status |-> PENDING, message |-> "", target_service |-> "none"]

\* What processing one item did: the exception that escaped (raised), the
\* SyncResult returned, the two tables afterwards, and the calls made: the
\* provider ids handed to add_movie / add_series, the slugs fetched with
\* fetch_tmdb_id_from_page, the TMDB lookups, the is_synced reads and the
\* ledger rows written.
Outcome(raised, result, rows, cache, adds, fetches, lookups, reads, writes) ==
    [raised |-> raised, result |-> result, synced_items |-> rows,
     letterboxd_metadata |-> cache, add_calls |-> adds, fetch_calls |-> fetches,
     lookups |-> lookups, ledger_reads |-> reads, ledger_writes |-> writes]

\* sync_manager.py 141-177: lazy resolution of a Letterboxd entry's TMDB id.
\* The import at line 153 is relative to lumarr.cli.logic; importable says
\* whether lumarr.cli.logic.api.letterboxd resolves in the installation.
Resolved(raised, ids, cache, fetches) ==
    [raised |-> raised, provider_ids |-> ids, letterboxd_metadata |-> cache,
     fetch_calls |-> fetches]

\* faulty variant of resolve_letterboxd: the cache is not read
resolve_letterboxd_uncached(cache, item, importable, page) ==
    LET ids == item.provider_ids IN
    IF ~(Truthy(item.letterboxd_id) /\ Truthy(item.letterboxd_slug)
         /\ ~Truthy(ids.tmdb_id))
    THEN Resolved(FALSE, ids, cache, <<>>)
    ELSE IF ~importable
    THEN Resolved(TRUE, ids, cache, <<>>)
    ELSE IF Truthy(page)
    THEN Resolved(FALSE, [ids EXCEPT !.tmdb_id = page],
                  set_letterboxd_metadata(cache, item.letterboxd_id,
                                          item.letterboxd_slug, page),
                  << item.letterboxd_slug >>)
    ELSE Resolved(FALSE, ids,
                  set_letterboxd_metadata(cache, item.letterboxd_id,
                                          item.letterboxd_slug, None_),
                  << item.letterboxd_slug >>)

resolve_letterboxd(cache, item, importable, page) ==
    LET ids == item.provider_ids IN
    IF ~(Truthy(item.letterboxd_id) /\ Truthy(item.letterboxd_slug)
         /\ ~Truthy(ids.tmdb_id))
    THEN Resolved(FALSE, ids, cache, <<>>)
    ELSE LET cached == get_letterboxd_metadata(cache, item.letterboxd_id) IN
         IF cached.found /\ Truthy(cached.tmdb_id)
         THEN Resolved(FALSE, [ids EXCEPT !.tmdb_id = cached.tmdb_id], cache, <<>>)
         ELSE IF ~importable
         THEN Resolved(TRUE, ids, cache, <<>>)
         ELSE IF Truthy(page)
         THEN Resolved(FALSE, [ids EXCEPT !.tmdb_id = page],
                       set_letterboxd_metadata(cache, item.letterboxd_id,
                                               item.letterboxd_slug, page),
                       << item.letterboxd_slug >>)
         ELSE Resolved(FALSE, ids,
                       set_letterboxd_metadata(cache, item.letterboxd_id,
                                               item.letterboxd_slug, None_),
                       << item.letterboxd_slug >>)

\* sync_manager.py 194-209
missing_tmdb_message(ids, tmdb_configured) ==
    IF Truthy(ids.imdb_id)
    THEN IF ~tmdb_configured THEN MsgMovieConfigureTmdb ELSE MsgMovieLookupFailed
    ELSE MsgMovieNoIds

\* faulty variants of forward_movie: dry_run is not tested; the dry run
\* records a Success row; the
\* destination's error is not caught; the add call is made without the
\* TMDB id
forward_movie_ignores_dry_run(rows, cache, item, dry_run, add, fetches, lookups) ==
    LET ids == item.provider_ids
        key == item.rating_key
        read == << <<key, RADARR>> >>
        row == LedgerRow(key, item.media_type, RADARR, SUCCESS,
                         ids.tmdb_id, None_, ids.imdb_id, None_)
        bad == LedgerRow(key, item.media_type, RADARR, FAILED,
                         ids.tmdb_id, None_, None_, MsgAddFailed)
    IN  IF add = "ok"
        THEN Outcome(FALSE, SyncResult(item, SUCCESS, MsgAdded, RADARR),
                     record_sync(rows, row), cache, << ids >>, fetches, lookups,
                     read, << row >>)
        ELSE Outcome(FALSE, SyncResult(item, FAILED, MsgAddFailed, RADARR),
                     record_sync(rows, bad), cache, << ids >>, fetches, lookups,
                     read, << bad >>)

forward_movie_dry_run_records(rows, cache, item, dry_run, add, fetches, lookups) ==
    LET ids == item.provider_ids
        key == item.rating_key
        read == << <<key, RADARR>> >>
        row == LedgerRow(key, item.media_type, RADARR, SUCCESS,
                         ids.tmdb_id, None_, ids.imdb_id, None_)
        bad == LedgerRow(key, item.media_type, RADARR, FAILED,
                         ids.tmdb_id, None_, None_, MsgAddFailed)
    IN  IF dry_run
        THEN Outcome(FALSE, SyncResult(item, SUCCESS, MsgDryRunRadarr, RADARR),
                     record_sync(rows, row), cache, <<>>, fetches, lookups, read, << row >>)
        ELSE IF add = "ok"
        THEN Outcome(FALSE, SyncResult(item, SUCCESS, MsgAdded, RADARR),
                     record_sync(rows, row), cache, << ids >>, fetches, lookups,
                     read, << row >>)
        ELSE Outcome(FALSE, SyncResult(item, FAILED, MsgAddFailed, RADARR),
                     record_sync(rows, bad), cache, << ids >>, fetches, lookups,
                     read, << bad >>)

forward_movie_uncaught(rows, cache, item, dry_run, add, fetches, lookups) ==
    LET ids == item.provider_ids
        key == item.rating_key
        read == << <<key, RADARR>> >>
        row == LedgerRow(key, item.media_type, RADARR, SUCCESS,
                         ids.tmdb_id, None_, ids.imdb_id, None_)
    IN  IF dry_run
        THEN Outcome(FALSE, SyncResult(item, SUCCESS, MsgDryRunRadarr, RADARR),
                     rows, cache, <<>>, fetches, lookups, read, <<>>)
        ELSE IF add = "ok"
        THEN Outcome(FALSE, SyncResult(item, SUCCESS, MsgAdded, RADARR),
                     record_sync(rows, row), cache, << ids >>, fetches, lookups,
                     read, << row >>)
        ELSE Outcome(TRUE, NoResult, rows, cache, << ids >>, fetches, lookups,
                     read, <<>>)

forward_movie_stale_ids(rows, cache, item, dry_run, add, fetches, lookups) ==
    LET ids == item.provider_ids
        key == item.rating_key
        read == << <<key, RADARR>> >>
        sent == [ids EXCEPT !.tmdb_id = None_]
        row == LedgerRow(key, item.media_type, RADARR, SUCCESS,
                         ids.tmdb_id, None_, ids.imdb_id, None_)
        bad == LedgerRow(key, item.media_type, RADARR, FAILED,
                         ids.tmdb_id, None_, None_, MsgAddFailed)
    IN  IF dry_run
        THEN Outcome(FALSE, SyncResult(item, SUCCESS, MsgDryRunRadarr, RADARR),
                     rows, cache, <<>>, fetches, lookups, read, <<>>)
        ELSE IF add = "ok"
        THEN Outcome(FALSE, SyncResult(item, SUCCESS, MsgAdded, RADARR),
                     record_sync(rows, row), cache, << sent >>, fetches, lookups,
                     read, << row >>)
        ELSE Outcome(FALSE, SyncResult(item, FAILED, MsgAddFailed, RADARR),
                     record_sync(rows, bad), cache, << sent >>, fetches, lookups,
                     read, << bad >>)

\* sync_manager.py 228-279: the dry-run return, then the add call with the
\* ledger write on either outcome
forward_movie(rows, cache, item, dry_run, add, fetches, lookups) ==
    LET ids == item.provider_ids
        key == item.rating_key
        read == << <<key, RADARR>> >>
        row == LedgerRow(key, item.media_type, RADARR, SUCCESS,
                         ids.tmdb_id, None_, ids.imdb_id, None_)
        bad == LedgerRow(key, item.media_type, RADARR, FAILED,
                         ids.tmdb_id, None_, None_, MsgAddFailed)
    IN  IF dry_run
        THEN Outcome(FALSE, SyncResult(item, SUCCESS, MsgDryRunRadarr, RADARR),
                     rows, cache, <<>>, fetches, lookups, read, <<>>)
        ELSE IF add = "ok"
        THEN Outcome(FALSE, SyncResult(item, SUCCESS, MsgAdded, RADARR),
                     record_sync(rows, row), cache, << ids >>, fetches, lookups,
                     read, << row >>)
        ELSE Outcome(FALSE, SyncResult(item, FAILED, MsgAddFailed, RADARR),
                     record_sync(rows, bad), cache, << ids >>, fetches, lookups,
                     read, << bad >>)

\* SyncManager._sync_movie
_sync_movie(rows, cache, item, cfg, dry_run, env) ==
    LET key == item.rating_key IN
    IF ~cfg.radarr
    THEN Outcome(FALSE, SyncResult(item, SKIPPED, MsgRadarrNotConfigured, RADARR),
                 rows, cache, <<>>, <<>>, <<>>, <<>>, <<>>)
    ELSE IF is_synced(rows, key, RADARR)
    THEN Outcome(FALSE, SyncResult(item, SKIPPED, MsgAlreadyRadarr, RADARR),
                 rows, cache, <<>>, <<>>, <<>>, << <<key, RADARR>> >>, <<>>)
    ELSE
      LET slug == resolve_letterboxd(cache, item, cfg.importable, env.page) IN
      IF slug.raised
      THEN Outcome(TRUE, NoResult, rows, cache, <<>>, <<>>, <<>>,
                   << <<key, RADARR>> >>, <<>>)
      ELSE
        LET enh == enhance_provider_ids(slug.provider_ids, "movie", cfg.tmdb,
                                        env.by_tvdb, env.by_imdb)
            ids == enh.provider_ids
            it == [item EXCEPT !.provider_ids = ids]
        IN  IF ~Truthy(ids.tmdb_id)
            THEN LET message == missing_tmdb_message(ids, cfg.tmdb)
                     row == LedgerRow(key, item.media_type, RADARR, FAILED,
                                      None_, None_, ids.imdb_id, message)
                 IN  Outcome(FALSE, SyncResult(it, FAILED, message, RADARR),
                             record_sync(rows, row), slug.letterboxd_metadata,
                             <<>>, slug.fetch_calls, enh.lookups,
                             << <<key, RADARR>> >>, << row >>)
            ELSE forward_movie(rows, slug.letterboxd_metadata, it, dry_run,
                               env.add, slug.fetch_calls, enh.lookups)

\* sync_manager.py 322-342
missing_tvdb_message(ids, tmdb_configured) ==
    IF Truthy(ids.tmdb_id) \/ Truthy(ids.imdb_id)
    THEN IF ~tmdb_configured THEN MsgShowConfigureTmdb ELSE MsgShowLookupFailed
    ELSE MsgShowNoIds

\* sync_manager.py 362-413
forward_series(rows, cache, item, dry_run, add, lookups) ==
    LET ids == item.provider_ids
        key == item.rating_key
        read == << <<key, SONARR>> >>
        row == LedgerRow(key, item.media_type, SONARR, SUCCESS,
                         ids.tmdb_id, ids.tvdb_id, ids.imdb_id, None_)
        bad == LedgerRow(key, item.media_type, SONARR, FAILED,
                         None_, ids.tvdb_id, None_, MsgAddFailed)
    IN  IF dry_run
        THEN Outcome(FALSE, SyncResult(item, SUCCESS, MsgDryRunSonarr, SONARR),
                     rows, cache, <<>>, <<>>, lookups, read, <<>>)
        ELSE IF add = "ok"
        THEN Outcome(FALSE, SyncResult(item, SUCCESS, MsgAdded, SONARR),
                     record_sync(rows, row), cache, << ids >>, <<>>, lookups,
                     read, << row >>)
        ELSE Outcome(FALSE, SyncResult(item, FAILED, MsgAddFailed, SONARR),
                     record_sync(rows, bad), cache, << ids >>, <<>>, lookups,
                     read, << bad >>)

\* SyncManager._sync_tv_show
_sync_tv_show(rows, cache, item, cfg, dry_run, env) ==
    LET key == item.rating_key IN
    IF ~cfg.sonarr
    THEN Outcome(FALSE, SyncResult(item, SKIPPED, MsgSonarrNotConfigured, SONARR),
                 rows, cache, <<>>, <<>>, <<>>, <<>>, <<>>)
    ELSE IF is_synced(rows, key, SONARR)
    THEN Outcome(FALSE, SyncResult(item, SKIPPED, MsgAlreadySonarr, SONARR),
                 rows, cache, <<>>, <<>>, <<>>, << <<key, SONARR>> >>, <<>>)
    ELSE
      LET enh == enhance_provider_ids(item.provider_ids, "show", cfg.tmdb,
                                      env.by_tvdb, env.by_imdb)
          ids == enh.provider_ids
          it == [item EXCEPT !.provider_ids = ids]
      IN  IF ~Truthy(ids.tvdb_id)
          THEN LET message == missing_tvdb_message(ids, cfg.tmdb)
                   row == LedgerRow(key, item.media_type, SONARR, FAILED,
                                    ids.tmdb_id, None_, ids.imdb_id, message)
               IN  Outcome(FALSE, SyncResult(it, FAILED, message, SONARR),
                           record_sync(rows, row), cache, <<>>, <<>>, enh.lookups,
                           << <<key, SONARR>> >>, << row >>)
          ELSE forward_series(rows, cache, it, dry_run, env.add, enh.lookups)

\* faulty variant of _sync_item: the ledger is read before the destination
\* is looked at
_sync_item_reads_ledger_first(rows, cache, item, cfg, dry_run, env) ==
    LET o == IF item.media_type = MOVIE
             THEN _sync_movie(rows, cache, item, cfg, dry_run, env)
             ELSE _sync_tv_show(rows, cache, item, cfg, dry_run, env)
    IN  IF o.ledger_reads = <<>>
        THEN [o EXCEPT !.ledger_reads =
                 << << item.rating_key, o.result.target_service >> >>]
        ELSE o

\* SyncManager._sync_item (MediaType has no third member)
_sync_item(rows, cache, item, cfg, dry_run, env) ==
    IF item.media_type = MOVIE
    THEN _sync_movie(rows, cache, item, cfg, dry_run, env)
    ELSE _sync_tv_show(rows, cache, item, cfg, dry_run, env)

\* follow_mode.py 238-251: the body of _sync_letterboxd_items' loop
_sync_letterboxd_item(rows, cache, item, cfg, dry_run, env) ==
    IF is_synced(rows, item.rating_key, RADARR)
    THEN Outcome(FALSE, SyncResult(item, SKIPPED, MsgAlreadySynced, RADARR),
                 rows, cache, <<>>, <<>>, <<>>,
                 << <<item.rating_key, RADARR>> >>, <<>>)
    ELSE LET o == _sync_movie(rows, cache, item, cfg, dry_run, env)
         IN  [o EXCEPT !.ledger_reads = << <<item.rating_key, RADARR>> >> \o @]

\* follow_mode.py 221-224: the min_rating filter of _sync_letterboxd_items
\* (the keys of a fetched list are distinct, so the deduplication of lines
\* 226-230 leaves the list as it is)
apply_min_rating(items, min_rating) ==
    IF min_rating > 0
    THEN SelectSeq(items, LAMBDA item : item.rating.rated /\ item.rating.value >= min_rating)
    ELSE items

\* ------------------------------------------------------ logic/baseline.py
\* the ledger while establish_baseline runs, with the rows it has written
Marked(rows, written) == [synced_items |-> rows, ledger_writes |-> written]

mark_synced(acc, row) ==
    Marked(record_sync(acc.synced_items, row), Append(acc.ledger_writes, row))

\* faulty variant of baseline_plex: the row is written without the
\* is_synced test
RECURSIVE baseline_plex_unchecked(_, _, _)
baseline_plex_unchecked(acc, fetched, cfg) ==
    IF fetched = <<>> THEN acc
    ELSE
      LET item == Head(fetched)
          ids == item.provider_ids
          target == IF item.media_type = MOVIE /\ cfg.radarr THEN RADARR
                    ELSE IF item.media_type = TV_SHOW /\ cfg.sonarr THEN SONARR
                    ELSE "none"
          marked ==
              IF target = "none" THEN acc
              ELSE mark_synced(acc, LedgerRow(item.rating_key, item.media_type,
                                              target, SUCCESS, ids.tmdb_id,
                                              ids.tvdb_id, ids.imdb_id, None_))
      IN  baseline_plex_unchecked(marked, Tail(fetched), cfg)

\* baseline.py 48-72: the loop over the Plex watchlist
RECURSIVE baseline_plex(_, _, _)
baseline_plex(acc, fetched, cfg) ==
    IF fetched = <<>> THEN acc
    ELSE
      LET item == Head(fetched)
          ids == item.provider_ids
          target == IF item.media_type = MOVIE /\ cfg.radarr THEN RADARR
                    ELSE IF item.media_type = TV_SHOW /\ cfg.sonarr THEN SONARR
                    ELSE "none"
          marked ==
              IF target = "none" THEN acc
              ELSE IF ~is_synced(acc.synced_items, item.rating_key, target)
              THEN mark_synced(acc, LedgerRow(item.rating_key, item.media_type,
                                              target, SUCCESS, ids.tmdb_id,
                                              ids.tvdb_id, ids.imdb_id, None_))
              ELSE acc
      IN  baseline_plex(marked, Tail(fetched), cfg)

\* baseline.py 106-129: the loop over the Letterboxd items
RECURSIVE baseline_letterboxd(_, _)
baseline_letterboxd(acc, items) ==
    IF items = <<>> THEN acc
    ELSE
      LET item == Head(items)
          marked ==
              IF ~is_synced(acc.synced_items, item.rating_key, RADARR)
              THEN mark_synced(acc, LedgerRow(item.rating_key, MOVIE, RADARR,
                                              SUCCESS, None_, None_, None_, None_))
              ELSE acc
      IN  baseline_letterboxd(marked, Tail(items))

RECURSIVE baseline_letterboxd_metadata(_, _)
baseline_letterboxd_metadata(cache, items) ==
    IF items = <<>> THEN cache
    ELSE
      LET item == Head(items)
          stored ==
              IF Truthy(item.letterboxd_id) /\ Truthy(item.letterboxd_slug)
              THEN set_letterboxd_metadata(cache, item.letterboxd_id,
                                           item.letterboxd_slug, None_)
              ELSE cache
      IN  baseline_letterboxd_metadata(stored, Tail(items))

\* ------------------------------------------------------ api/letterboxd.py
\* _request_with_retry; delays are in tenths of a second
WATCHLIST_REQUEST_DELAY == 5

MAX_REQUEST_RETRIES == 3

Max(a, b) == IF a >= b THEN a ELSE b

\* what requests.get gives: a RequestException, or a response with its
\* status code and its Retry-After header (None when the header is absent)
RequestException == [raised |-> TRUE, status_code |-> 0, retry_after |-> None_]

Response(code, header) == [raised |-> FALSE, status_code |-> code, retry_after |-> header]

\* delay-seconds or an HTTP-date
RetryAfterHeaders == { None_, "0", "0.2", "1", "2", "Thu, 05 Nov 2026 20:00:03 GMT" }

Answers ==
    { RequestException }
    \cup { Response(code, None_) : code \in { 200, 404, 503 } }
    \cup { Response(429, h) : h \in RetryAfterHeaders }

\* float(retry_after): the number a text spells, in tenths; TypeError for
\* None and ValueError for a text that is no number
float(text) ==
    CASE text = "0" -> [ok |-> TRUE, value |-> 0]
      [] text = "0.2" -> [ok |-> TRUE, value |-> 2]
      [] text = "1" -> [ok |-> TRUE, value |-> 10]
      [] text = "2" -> [ok |-> TRUE, value |-> 20]
      [] OTHER -> [ok |-> FALSE, value |-> 0]

\* Response.raise_for_status raises for the status codes 400..599
raise_for_status(response) == response.status_code >= 400 /\ response.status_code < 600

\* the delay set after a RequestException or a 429 (lines 315, 323-327)
next_delay(answer, attempt, base_delay) ==
    IF answer.raised THEN base_delay * (attempt + 1)
    ELSE LET retry_after == float(answer.retry_after)
         IN  IF retry_after.ok THEN Max(retry_after.value, base_delay)
             ELSE base_delay * (attempt + 1)

\* a call of _request_with_retry: its position ("idle", "loop", "returned",
\* "raised"), the locals attempt, delay, last_exception and response, and
\* the requests it sent, the answers it got and the sleeps it made
Unbound == Response(0, None_)

NoRequest ==
    [pc |-> "idle", attempt |-> 0, delay |-> 0, base_delay |-> 0,
     last_exception |-> FALSE, response |-> Unbound,
     sent |-> 0, answers |-> <<>>, slept |-> <<>>]

\* lines 329-333: the loop is over
after_loop(r) ==
    IF r.attempt < MAX_REQUEST_RETRIES THEN r
    ELSE IF r.last_exception THEN [r EXCEPT !.pc = "raised"]
    ELSE IF raise_for_status(r.response) THEN [r EXCEPT !.pc = "raised"]
    ELSE [r EXCEPT !.pc = "returned"]

\* lines 308-327: one turn of the loop, requests.get giving answer
attempt_once(r, answer) ==
    LET woke == [r EXCEPT !.slept = IF r.delay > 0 THEN Append(@, r.delay) ELSE @,
                          !.sent = @ + 1,
                          !.answers = Append(@, answer)]
    IN  IF answer.raised
        THEN after_loop([woke EXCEPT !.last_exception = TRUE,
                                     !.delay = next_delay(answer, r.attempt, r.base_delay),
                                     !.attempt = @ + 1])
        ELSE IF answer.status_code # 429
        THEN IF raise_for_status(answer)
             THEN [woke EXCEPT !.response = answer, !.pc = "raised"]
             ELSE [woke EXCEPT !.response = answer, !.pc = "returned"]
        ELSE after_loop([woke EXCEPT !.response = answer,
                                     !.delay = next_delay(answer, r.attempt, r.base_delay),
                                     !.attempt = @ + 1])

\* ------------------------------------------------ db.py, the metadata cache
\* the days the clock of the model runs through, and the largest
\* sync.cache_max_age_days tried
MaxDay == 4

MaxAge == 2

\* datetime.isoformat and datetime.fromisoformat: cached_at is stored as text
isoformat(t) == ToString(t)

fromisoformat(text) == CHOOSE t \in 0..(MaxDay + 1) : ToString(t) = text

NotCached == [found |-> FALSE, metadata |-> None_, cached_at |-> None_]

get_metadata_cache(cache, rating_key) ==
    IF \E row \in cache : row.rating_key = rating_key
    THEN LET row == CHOOSE row \in cache : row.rating_key = rating_key
         IN  [found |-> TRUE, metadata |-> row.metadata, cached_at |-> row.cached_at]
    ELSE NotCached

get_multiple_metadata_cache(cache, rating_keys) ==
    LET asked == { rating_keys[i] : i \in 1..Len(rating_keys) }
        held == { row.rating_key : row \in cache } \cap asked
    IN  [k \in held |-> get_metadata_cache(cache, k)]

\* INSERT OR REPLACE under PRIMARY KEY rating_key, one cached_at for all
set_multiple_metadata_cache(cache, metadata_dict, now) ==
    { row \in cache : row.rating_key \notin DOMAIN metadata_dict }
    \cup { [rating_key |-> k, metadata |-> metadata_dict[k], cached_at |-> isoformat(now)] :
             k \in DOMAIN metadata_dict }

\* faulty variant of is_cache_stale: stale from the day the age reaches
\* max_age_days
is_cache_stale_at_max_age(cache, rating_key, max_age_days, now) ==
    LET cached == get_metadata_cache(cache, rating_key)
    IN  IF ~cached.found THEN TRUE
        ELSE now - fromisoformat(cached.cached_at) >= max_age_days

is_cache_stale(cache, rating_key, max_age_days, now) ==
    LET cached == get_metadata_cache(cache, rating_key)
    IN  IF ~cached.found THEN TRUE
        ELSE now - fromisoformat(cached.cached_at) > max_age_days

\* ------------------------------------------------------------ api/plex.py
\* the detailed metadata of an entry as the source holds it; rev tells one
\* answer of the source from another
PlexMetadata(rating_key, rev) == [ratingKey |-> rating_key, rev |-> rev]

Revs == { 1, 2 }

\* the rating keys get_watchlist asks details for
KeyLists == { << "p1" >>, << "p2" >>, << "p1", "p2" >> }

\* what get_batch_metadata can return for the keys asked: the metadata of
\* any of them ({} when the request fails)
BatchAnswers(needs_fetch) ==
    LET asked == { needs_fetch[i] : i \in 1..Len(needs_fetch) }
    IN  UNION { [S -> { PlexMetadata(k, rev) : k \in asked, rev \in Revs }] :
                  S \in SUBSET asked }

needs_fetch_of(cache, rating_keys, max_age_days, now) ==
    LET cached == get_multiple_metadata_cache(cache, rating_keys)
    IN  SelectSeq(rating_keys,
                  LAMBDA k : \/ k \notin DOMAIN cached
                             \/ is_cache_stale(cache, k, max_age_days, now))

\* _fetch_with_cache, get_batch_metadata answering fetched for the keys it
\* is asked: the keys asked, the table afterwards and the dict returned
_fetch_with_cache(cache, rating_keys, max_age_days, now, fetched) ==
    LET cached == get_multiple_metadata_cache(cache, rating_keys)
        needs_fetch == needs_fetch_of(cache, rating_keys, max_age_days, now)
        hits == { rating_keys[i] : i \in 1..Len(rating_keys) }
                \ { needs_fetch[i] : i \in 1..Len(needs_fetch) }
        fresh_cache == [k \in hits |-> cached[k].metadata]
    IN  IF needs_fetch # <<>>
        THEN [needs_fetch |-> needs_fetch,
              metadata_cache |-> set_multiple_metadata_cache(cache, fetched, now),
              result |-> fetched @@ fresh_cache]
        ELSE [needs_fetch |-> <<>>, metadata_cache |-> cache, result |-> fresh_cache]

NoFetch ==
    [op |-> "init", rating_keys |-> <<>>, at |-> 0, before |-> {},
     needs_fetch |-> <<>>, fetched |-> << >>, result |-> << >>]

\* ------------------------------------------------------------------ state
VARIABLES
    config,               \* which adapters the command was given
    plex_catalog,         \* the entries of the Plex watchlist
    letterboxd_catalog,   \* the entries of the Letterboxd feeds and watchlists
    synced_items,         \* the ledger table
    letterboxd_metadata,  \* the Letterboxd id cache table
    pc,                   \* "idle", or the pass in progress, or how it ended
    dry_run,              \* SyncManager.dry_run of the pass in progress
    watchlist,            \* the items the pass fetched
    results,              \* summary.results so far
    summary,              \* the counters of the summary
    obs,                  \* what the last operation did
    passes,               \* passes started so far
    forwards,             \* per (key, service): add calls that returned since the last clear_history
    add_failures,         \* the (key, service) whose add call has raised since the last clear_history
    previewed,            \* the keys a dry-run pass has reported as "would add"
    page_fetches,         \* per Letterboxd film id: fetch_tmdb_id_from_page calls
    page_misses,          \* film ids whose page fetch has returned None
    follow                \* the sync command's own position, clock and flags

VARIABLES
    request,              \* the _request_with_retry call of the Letterboxd adapter
    metadata_cache,       \* the metadata_cache table
    clock,                \* datetime.now(), in days
    cache_max_age_days,   \* PlexApi.cache_max_age_days
    plex_fetch            \* what the last _fetch_with_cache did

adapters == << request, metadata_cache, clock, cache_max_age_days, plex_fetch >>

vars == << config, plex_catalog, letterboxd_catalog, synced_items, letterboxd_metadata, pc, dry_run, watchlist,
           results, summary, obs, passes, forwards, add_failures, previewed,
           page_fetches, page_misses, follow, adapters >>

history == << forwards, add_failures, previewed, page_fetches, page_misses >>

\* min_rating is config.get("letterboxd.min_rating", 0), min_rating_option
\* the --min-rating parameter of the sync command; Configs leaves both at
\* their defaults
Configs ==
    [radarr : BOOLEAN, sonarr : BOOLEAN, tmdb : BOOLEAN, importable : BOOLEAN,
     min_rating : { 0 }, min_rating_option : { NoRating }]

LetterboxdIds ==
    { LetterboxdCatalog[i].letterboxd_id : i \in 1..Len(LetterboxdCatalog) } \ { None_ }

NoItem == WatchlistItem(None_, MOVIE, ProviderId(None_, None_, None_), None_, None_)

NoOutcome == Outcome(FALSE, NoResult, {}, {}, <<>>, <<>>, <<>>, <<>>, <<>>)

\* The last operation: which one, the list it fetched or the item it
\* processed, its result and the calls it made (the tables are state), and
\* what the destination's add call answered when it was made.
Observed(op, pass, dry, fetched, item, o, add) ==
    [op |-> op, pass |-> pass, dry_run |-> dry, fetched |-> fetched, item |-> item,
     raised |-> o.raised, result |-> o.result, add_calls |-> o.add_calls,
     add_returned |-> IF o.add_calls = <<>> THEN "none" ELSE add,
     fetch_calls |-> o.fetch_calls, lookups |-> o.lookups,
     ledger_reads |-> o.ledger_reads, ledger_writes |-> o.ledger_writes]

SyncSummary ==
    [total |-> 0, movies_added |-> 0, shows_added |-> 0, skipped |-> 0, failed |-> 0]

\* The sync command (commands/sync.py, logic/follow_mode.py).  pc is "off"
\* when passes are started freely; otherwise it is the command's position:
\* single mode "single_plex", "single_lbox", then "exited" or "aborted";
\* follow mode "initial_plex", "initial_lbox", then the loop "top",
\* "check_plex", "check_lbox", "sleep", and "stopped".  Time is counted in
\* sleeps of the loop.  The last fields are history: the sources whose
\* initial sync was started, whether a ledger operation has failed, per
\* source the current_time of its last tick that raised (-1: none), the
\* sources that ticked after a tick had raised, and where the pass stood when
\* the signal arrived.  services is what the decorators of the command find
\* at "startup" (core/decorators.py): Plex "ok" or "unreachable", a
\* destination "disabled", "unreachable" or "ok"; "unset" where the adapters
\* are given by config without the decorators being run.
NotFollowing ==
    [pc |-> "off", dry_run |-> FALSE, letterboxd_names |-> FALSE,
     services |-> [plex |-> "ok", radarr |-> "unset", sonarr |-> "unset"],
     shutdown_requested |-> FALSE, now |-> 0, current_time |-> 0,
     last_plex_sync |-> 0, last_lbox_sync |-> 0,
     initial |-> {}, storage_failed |-> FALSE,
     tick_raised |-> [plex |-> -1, lbox |-> -1], ticked_after_error |-> {},
     signal_pc |-> "none", signal_results |-> 0]

\* the tables of a new database and no pass started
NoPass ==
    /\ synced_items = {}
    /\ letterboxd_metadata = {}
    /\ pc = "idle"
    /\ dry_run = FALSE
    /\ watchlist = <<>>
    /\ results = <<>>
    /\ summary = SyncSummary
    /\ obs = Observed("init", "none", FALSE, <<>>, NoItem, NoOutcome, "none")
    /\ passes = 0
    /\ forwards = [p \in Keys \X Services |-> 0]
    /\ add_failures = {}
    /\ previewed = {}
    /\ page_fetches = [f \in LetterboxdIds |-> 0]
    /\ page_misses = {}

\* no request in progress, an empty metadata cache
AdaptersIdle ==
    /\ request = NoRequest
    /\ metadata_cache = {}
    /\ clock = 0
    /\ plex_fetch = NoFetch

\* cache_max_age_days at its default (api/plex.py 35)
Fresh ==
    /\ NoPass
    /\ AdaptersIdle
    /\ cache_max_age_days = 7

Started ==
    /\ config \in Configs
    /\ Fresh

Init ==
    /\ plex_catalog = PlexCatalog
    /\ letterboxd_catalog = LetterboxdCatalog
    /\ follow = NotFollowing
    /\ Started

\* Plex watchlists whose movie and whose series carry each combination of
\* identifiers the GUIDs of an entry can give (api/plex.py fills ProviderId
\* from the entry's guids; any of them may be absent)
MovieIds ==
    { ProviderId(None_, None_, None_),
      ProviderId(None_, None_, "tt0133093"),
      ProviderId(None_, "290434", None_),
      ProviderId(None_, "290434", "tt0133093"),
      ProviderId("603", None_, "tt0133093") }

ShowIds ==
    { ProviderId(None_, None_, None_),
      ProviderId("1399", None_, None_),
      ProviderId(None_, None_, "tt0944947"),
      ProviderId(None_, "81189", None_),
      ProviderId(None_, "81189", "tt0903747") }

IdCatalogs ==
    { << WatchlistItem("p1", MOVIE, m, None_, None_),
         WatchlistItem("p3", TV_SHOW, s, None_, None_) >> :
        m \in MovieIds, s \in ShowIds }

IdsInit ==
    /\ plex_catalog \in IdCatalogs
    /\ letterboxd_catalog = LetterboxdCatalog
    /\ follow = NotFollowing
    /\ Started

\* faulty variant of count_result: every success is counted as a movie
count_result_success_as_movie(s, item, result) ==
    IF result.status = SUCCESS THEN [s EXCEPT !.movies_added = @ + 1]
    ELSE IF result.status = SKIPPED THEN [s EXCEPT !.skipped = @ + 1]
    ELSE IF result.status = FAILED THEN [s EXCEPT !.failed = @ + 1]
    ELSE s

\* the counters of sync_manager.py 67-75 (and follow_mode.py 253-258, whose
\* "added" is movies_added here)
count_result(s, item, result) ==
    IF result.status = SUCCESS
    THEN IF item.media_type = MOVIE
         THEN [s EXCEPT !.movies_added = @ + 1]
         ELSE [s EXCEPT !.shows_added = @ + 1]
    ELSE IF result.status = SKIPPED THEN [s EXCEPT !.skipped = @ + 1]
    ELSE IF result.status = FAILED THEN [s EXCEPT !.failed = @ + 1]
    ELSE s

\* the bookkeeping of the history variables for one processed item
Account(item, o, env) ==
    LET pair == << item.rating_key, o.result.target_service >>
        called == o.add_calls # <<>>
    IN  /\ forwards' =
             IF called /\ env.add = "ok"
             THEN [forwards EXCEPT ![pair] = @ + 1]
             ELSE forwards
        /\ add_failures' =
             IF called /\ env.add = "error"
             THEN add_failures \cup { << item.rating_key,
                                       IF item.media_type = MOVIE THEN RADARR ELSE SONARR >> }
             ELSE add_failures
        /\ previewed' =
             IF dry_run /\ ~o.raised /\ o.result.status = SUCCESS
             THEN previewed \cup { item.rating_key }
             ELSE previewed
        /\ page_fetches' =
             IF o.fetch_calls # <<>>
             THEN [page_fetches EXCEPT ![item.letterboxd_id] = @ + 1]
             ELSE page_fetches
        /\ page_misses' =
             IF o.fetch_calls # <<>> /\ ~Truthy(env.page)
             THEN page_misses \cup { item.letterboxd_id }
             ELSE page_misses

\* faulty variant of append_result: the newest result is put first
prepend_result(rs, result) == << result >> \o rs

\* summary.results.append(result) (sync_manager.py 65; follow_mode.py 247)
append_result(rs, result) == Append(rs, result)

\* one processed item: the tables, the result list and the counters
Processed(pass, item, o, env) ==
    /\ synced_items' = o.synced_items
    /\ letterboxd_metadata' = o.letterboxd_metadata
    /\ obs' = Observed("item", pass, dry_run, <<>>, item, o, env.add)
    /\ Account(item, o, env)
    /\ IF o.raised
       THEN /\ pc' = "raised"
            /\ UNCHANGED << results, summary >>
       ELSE /\ results' = append_result(results, o.result)
            /\ summary' = count_result(summary, item, o.result)
            /\ pc' = IF Len(results) + 1 = Len(watchlist) THEN "done" ELSE pc
    /\ UNCHANGED << config, plex_catalog, letterboxd_catalog, dry_run, watchlist, passes >>

\* SyncManager.sync, lines 54-61: the fetch; PlexApiError is re-raised
StartSync ==
    /\ pc = "idle"
    /\ passes < MaxPasses
    /\ passes' = passes + 1
    /\ \E dry \in BOOLEAN :
         /\ dry_run' = dry
         /\ \/ \E fetched \in Watchlists(plex_catalog) :
                 /\ watchlist' = fetched
                 /\ summary' = [SyncSummary EXCEPT !.total = Len(fetched)]
                 /\ pc' = IF fetched = <<>> THEN "done" ELSE "plex"
                 /\ obs' = Observed("fetch", "plex", dry, fetched, NoItem,
                                    NoOutcome, "none")
            \/ /\ watchlist' = <<>>
               /\ summary' = SyncSummary
               /\ pc' = "raised"
               /\ obs' = Observed("fetch", "plex", dry, <<>>, NoItem,
                                  [NoOutcome EXCEPT !.raised = TRUE], "none")
    /\ results' = <<>>
    /\ UNCHANGED << follow, config, plex_catalog, letterboxd_catalog, synced_items, letterboxd_metadata, history >>
    /\ UNCHANGED adapters

\* SyncManager.sync, lines 63-75: one turn of the loop
SyncItem ==
    /\ pc = "plex"
    /\ \E env \in Envs(watchlist[Len(results) + 1]) :
         LET item == watchlist[Len(results) + 1]
             o == _sync_item(synced_items, letterboxd_metadata, item, config,
                             dry_run, env)
         IN  Processed("plex", item, o, env)
    /\ UNCHANGED follow
    /\ UNCHANGED adapters

\* _sync_letterboxd_items, lines 200-236: it runs when Letterboxd names are
\* configured (a behaviour that never takes this step is one without them)
\* and Radarr is; LetterboxdApiError and an empty list end it with None
StartLetterboxd ==
    /\ pc = "idle"
    /\ passes < MaxPasses
    /\ config.radarr
    /\ passes' = passes + 1
    /\ \E dry \in BOOLEAN :
         /\ dry_run' = dry
         /\ \/ \E fetched \in Watchlists(letterboxd_catalog) :
                 LET items == apply_min_rating(fetched, config.min_rating) IN
                 /\ watchlist' = items
                 /\ summary' = [SyncSummary EXCEPT !.total = Len(items)]
                 /\ pc' = IF items = <<>> THEN "done" ELSE "letterboxd"
                 /\ obs' = Observed("fetch", "letterboxd", dry, items, NoItem,
                                    NoOutcome, "none")
            \/ /\ watchlist' = <<>>
               /\ summary' = SyncSummary
               /\ pc' = "done"
               /\ obs' = Observed("fetch", "letterboxd", dry, <<>>, NoItem,
                                  [NoOutcome EXCEPT !.raised = TRUE], "none")
    /\ results' = <<>>
    /\ UNCHANGED << follow, config, plex_catalog, letterboxd_catalog, synced_items, letterboxd_metadata, history >>
    /\ UNCHANGED adapters

\* _sync_letterboxd_items, lines 238-258: one turn of the loop
SyncLetterboxdItem ==
    /\ pc = "letterboxd"
    /\ \E env \in Envs(watchlist[Len(results) + 1]) :
         LET item == watchlist[Len(results) + 1]
             o == _sync_letterboxd_item(synced_items, letterboxd_metadata, item,
                                        config, dry_run, env)
         IN  Processed("letterboxd", item, o, env)
    /\ UNCHANGED follow
    /\ UNCHANGED adapters

\* the pass has returned its summary, or its exception has reached the caller
Return ==
    /\ pc \in { "done", "raised" }
    /\ pc' = "idle"
    /\ dry_run' = FALSE
    /\ watchlist' = <<>>
    /\ results' = <<>>
    /\ summary' = SyncSummary
    /\ obs' = Observed("return", "none", FALSE, <<>>, NoItem, NoOutcome, "none")
    /\ UNCHANGED << follow, config, plex_catalog, letterboxd_catalog, synced_items, letterboxd_metadata, passes, history >>
    /\ UNCHANGED adapters

\* establish_baseline, run by `sync --ignore-existing` whatever --dry-run says
\* (commands/sync.py 57-68); the Letterboxd part runs when Letterboxd names
\* are configured and Radarr is
EstablishBaseline ==
    /\ pc = "idle"
    /\ passes < MaxPasses
    /\ passes' = passes + 1
    /\ \E dry \in BOOLEAN, fetched \in Watchlists(plex_catalog) :
         LET plex == baseline_plex(Marked(synced_items, <<>>), fetched, config) IN
         \/ /\ config.radarr
            /\ \E items \in Watchlists(letterboxd_catalog) :
                 LET both == baseline_letterboxd(plex, items) IN
                 /\ synced_items' = both.synced_items
                 /\ letterboxd_metadata' =
                      baseline_letterboxd_metadata(letterboxd_metadata, items)
                 /\ obs' = Observed("baseline", "none", dry, fetched \o items, NoItem,
                                    [NoOutcome EXCEPT !.ledger_writes = both.ledger_writes],
                                    "none")
         \/ /\ synced_items' = plex.synced_items
            /\ obs' = Observed("baseline", "none", dry, fetched, NoItem,
                               [NoOutcome EXCEPT !.ledger_writes = plex.ledger_writes],
                               "none")
            /\ UNCHANGED letterboxd_metadata
    /\ UNCHANGED << follow, config, plex_catalog, letterboxd_catalog, pc, dry_run, watchlist, results, summary, history >>
    /\ UNCHANGED adapters

\* Database.clear_history (db.py 203-208), the call of commands/clear.py
ClearHistory ==
    /\ pc = "idle"
    /\ synced_items # {}
    /\ synced_items' = clear_history(synced_items)
    /\ forwards' = [p \in Keys \X Services |-> 0]
    /\ add_failures' = {}
    /\ obs' = Observed("clear", "none", FALSE, <<>>, NoItem, NoOutcome, "none")
    /\ UNCHANGED << follow, config, plex_catalog, letterboxd_catalog, letterboxd_metadata, pc, dry_run, watchlist, results,
                    summary, passes, previewed, page_fetches, page_misses >>
    /\ UNCHANGED adapters

Next ==
    \/ StartSync
    \/ SyncItem
    \/ StartLetterboxd
    \/ SyncLetterboxdItem
    \/ Return
    \/ EstablishBaseline
    \/ ClearHistory

Spec == Init /\ [][Next]_vars

\* the same passes over a watchlist of IdCatalogs
IdsSpec == IdsInit /\ [][Next]_vars

\* The Letterboxd passes of `sync` with a rating threshold: the configured
\* letterboxd.min_rating and the --min-rating option each absent or 3, over
\* a diary entry rated 2 or 4 or not rated, and the watchlist entry (which
\* never has a rating, api/letterboxd.py 263).
RatingConfigs ==
    [radarr : { TRUE }, sonarr : { FALSE }, tmdb : { FALSE }, importable : BOOLEAN,
     min_rating : { 0, 3 }, min_rating_option : { NoRating, Rating(3) }]

RatedCatalogs ==
    { << RssEntry(r), LetterboxdCatalog[1] >> : r \in { NoRating, Rating(2), Rating(4) } }

RatingInit ==
    /\ plex_catalog = <<>>
    /\ letterboxd_catalog \in RatedCatalogs
    /\ follow = NotFollowing
    /\ config \in RatingConfigs
    /\ Fresh

RatingNext ==
    \/ StartLetterboxd
    \/ SyncLetterboxdItem
    \/ Return

RatingSpec == RatingInit /\ [][RatingNext]_vars

\* ------------------------------------------- the sync command, follow mode
\* everything but the command's own state
sync_state == << config, plex_catalog, letterboxd_catalog, synced_items, letterboxd_metadata, pc,
                 dry_run, watchlist, results, summary, obs, passes, history >>

\* follow_mode.py 49 (and commands/sync.py 100)
has_letterboxd(f, cfg) == f.letterboxd_names /\ cfg.radarr

\* follow_mode.py 109-110: the timers start when the loop is entered
entered(f) ==
    [f EXCEPT !.pc = "top", !.last_plex_sync = f.now, !.last_lbox_sync = f.now]

\* faulty variant of top_of_loop: the flag is not tested
top_of_loop_ignores_shutdown(f) ==
    [f EXCEPT !.pc = "check_plex", !.current_time = f.now]

\* follow_mode.py 113-114: `while not shutdown_requested`, then the clock is read
top_of_loop(f) ==
    IF f.shutdown_requested
    THEN [f EXCEPT !.pc = "stopped"]
    ELSE [f EXCEPT !.pc = "check_plex", !.current_time = f.now]

\* follow_mode.py 117 and 138
plex_due(f) == f.current_time - f.last_plex_sync >= PlexInterval

\* faulty variant of lbox_due: the interval is counted from the Plex timestamp
lbox_due_on_plex_timer(f) == f.current_time - f.last_plex_sync >= LboxInterval

lbox_due(f) == f.current_time - f.last_lbox_sync >= LboxInterval

\* a pass of the source is started at f.pc (history only)
began(f, source) ==
    [f EXCEPT
       !.initial = IF f.pc \in { "initial_plex", "initial_lbox" }
                   THEN @ \cup { source } ELSE @,
       !.ticked_after_error =
           IF /\ f.pc \in { "check_plex", "check_lbox" }
              /\ (f.tick_raised.plex >= 0 \/ f.tick_raised.lbox >= 0)
           THEN @ \cup { source } ELSE @]

\* faulty variant of after_pass: the ticks of the loop have no try/except
after_pass_uncaught(f, ended) ==
    IF ended = "raised" THEN [f EXCEPT !.pc = "aborted"]
    ELSE IF f.pc = "single_plex" THEN [f EXCEPT !.pc = "single_lbox"]
    ELSE IF f.pc = "single_lbox" THEN [f EXCEPT !.pc = "exited"]
    ELSE IF f.pc = "initial_plex" THEN [f EXCEPT !.pc = "initial_lbox"]
    ELSE IF f.pc = "initial_lbox" THEN entered(f)
    ELSE IF f.pc = "check_plex"
    THEN [f EXCEPT !.pc = "check_lbox", !.last_plex_sync = f.current_time]
    ELSE [f EXCEPT !.pc = "sleep", !.last_lbox_sync = f.current_time]

\* where the command goes when the pass started at f.pc has returned
\* (ended = "done") or raised (ended = "raised"):
\* commands/sync.py 92-137 re-raises; follow_mode.py 93-110: the initial
\* sync is one try block around _run_full_sync; 118-135 and 139-164: a tick
\* sets its last-sync time after the pass has returned, inside the try
after_pass(f, ended) ==
    IF f.pc = "single_plex"
    THEN [f EXCEPT !.pc = IF ended = "raised" THEN "aborted" ELSE "single_lbox"]
    ELSE IF f.pc = "single_lbox"
    THEN [f EXCEPT !.pc = IF ended = "raised" THEN "aborted" ELSE "exited"]
    ELSE IF f.pc = "initial_plex"
    THEN IF ended = "raised" THEN entered(f) ELSE [f EXCEPT !.pc = "initial_lbox"]
    ELSE IF f.pc = "initial_lbox"
    THEN entered(f)
    ELSE IF f.pc = "check_plex"
    THEN IF ended = "raised"
         THEN [f EXCEPT !.pc = "check_lbox", !.tick_raised.plex = f.current_time]
         ELSE [f EXCEPT !.pc = "check_lbox", !.last_plex_sync = f.current_time]
    ELSE IF ended = "raised"
         THEN [f EXCEPT !.pc = "sleep", !.tick_raised.lbox = f.current_time]
         ELSE [f EXCEPT !.pc = "sleep", !.last_lbox_sync = f.current_time]

\* the Letterboxd part is not run: commands/sync.py 100, follow_mode.py
\* 200-204 (returns None at once), 138
skip_letterboxd(f) ==
    IF f.pc = "single_lbox" THEN [f EXCEPT !.pc = "exited"]
    ELSE IF f.pc = "initial_lbox" THEN entered(f)
    ELSE [f EXCEPT !.pc = "sleep"]

\* the Plex watchlist of the follow-mode behaviours
FollowCatalog == << PlexCatalog[1] >>

FollowInit ==
    /\ plex_catalog = FollowCatalog
    /\ letterboxd_catalog = LetterboxdCatalog
    /\ \E mode \in { "single_plex", "initial_plex" }, names \in BOOLEAN, dry \in BOOLEAN :
         follow = [NotFollowing EXCEPT !.pc = mode, !.letterboxd_names = names,
                                       !.dry_run = dry]
    /\ Started

\* follow_mode.py 113-114
Top ==
    /\ follow.pc = "top"
    /\ follow' = top_of_loop(follow)
    /\ UNCHANGED sync_state
    /\ UNCHANGED adapters

\* sync_manager.sync() is called: commands/sync.py 92, follow_mode.py 285
\* (initial sync), 117-119 (tick)
BeginPlex ==
    /\ pc = "idle"
    /\ \/ follow.pc \in { "single_plex", "initial_plex" }
       \/ follow.pc = "check_plex" /\ plex_due(follow)
    /\ dry_run' = follow.dry_run
    /\ \/ \E fetched \in Watchlists(plex_catalog) :
            /\ watchlist' = fetched
            /\ summary' = [SyncSummary EXCEPT !.total = Len(fetched)]
            /\ pc' = IF fetched = <<>> THEN "done" ELSE "plex"
            /\ obs' = Observed("fetch", "plex", follow.dry_run, fetched, NoItem,
                               NoOutcome, "none")
       \/ /\ watchlist' = <<>>
          /\ summary' = SyncSummary
          /\ pc' = "raised"
          /\ obs' = Observed("fetch", "plex", follow.dry_run, <<>>, NoItem,
                             [NoOutcome EXCEPT !.raised = TRUE], "none")
    /\ results' = <<>>
    /\ follow' = began(follow, "plex")
    /\ UNCHANGED << config, plex_catalog, letterboxd_catalog, synced_items, letterboxd_metadata,
                    passes, history >>
    /\ UNCHANGED adapters

\* follow_mode.py 117: the Plex interval has not elapsed
SkipPlex ==
    /\ pc = "idle"
    /\ follow.pc = "check_plex"
    /\ ~plex_due(follow)
    /\ follow' = [follow EXCEPT !.pc = "check_lbox"]
    /\ UNCHANGED sync_state
    /\ UNCHANGED adapters

\* _sync_letterboxd_items is run: commands/sync.py 100-109, follow_mode.py
\* 288-296 (initial sync), 138-148 (tick)
BeginLetterboxd ==
    /\ pc = "idle"
    /\ has_letterboxd(follow, config)
    /\ \/ follow.pc \in { "single_lbox", "initial_lbox" }
       \/ follow.pc = "check_lbox" /\ lbox_due(follow)
    /\ dry_run' = follow.dry_run
    /\ \/ \E fetched \in Watchlists(letterboxd_catalog) :
            LET items == apply_min_rating(fetched, config.min_rating) IN
            /\ watchlist' = items
            /\ summary' = [SyncSummary EXCEPT !.total = Len(items)]
            /\ pc' = IF items = <<>> THEN "done" ELSE "letterboxd"
            /\ obs' = Observed("fetch", "letterboxd", follow.dry_run, items,
                               NoItem, NoOutcome, "none")
       \/ /\ watchlist' = <<>>
          /\ summary' = SyncSummary
          /\ pc' = "done"
          /\ obs' = Observed("fetch", "letterboxd", follow.dry_run, <<>>, NoItem,
                             [NoOutcome EXCEPT !.raised = TRUE], "none")
    /\ results' = <<>>
    /\ follow' = began(follow, "lbox")
    /\ UNCHANGED << config, plex_catalog, letterboxd_catalog, synced_items, letterboxd_metadata,
                    passes, history >>
    /\ UNCHANGED adapters

SkipLetterboxd ==
    /\ pc = "idle"
    /\ \/ follow.pc \in { "single_lbox", "initial_lbox" } /\ ~has_letterboxd(follow, config)
       \/ follow.pc = "check_lbox" /\ ~(has_letterboxd(follow, config) /\ lbox_due(follow))
    /\ follow' = skip_letterboxd(follow)
    /\ UNCHANGED sync_state
    /\ UNCHANGED adapters

\* a ledger operation of the item in turn raises sqlite3.Error (db.py has
\* no handler, nor has SyncManager): the is_synced read, before anything is
\* done for the item, or the record_sync write, after what precedes it
StorageFault ==
    /\ pc \in { "plex", "letterboxd" }
    /\ \E env \in Envs(watchlist[Len(results) + 1]), at \in { "read", "write" } :
         LET item == watchlist[Len(results) + 1]
             o == IF pc = "plex"
                  THEN _sync_item(synced_items, letterboxd_metadata, item, config,
                                  dry_run, env)
                  ELSE _sync_letterboxd_item(synced_items, letterboxd_metadata,
                                             item, config, dry_run, env)
             failed ==
                 IF at = "read"
                 THEN Outcome(TRUE, NoResult, synced_items, letterboxd_metadata,
                              <<>>, <<>>, <<>>, << o.ledger_reads[1] >>, <<>>)
                 ELSE Outcome(TRUE, NoResult, synced_items, o.letterboxd_metadata,
                              o.add_calls, o.fetch_calls, o.lookups,
                              o.ledger_reads, <<>>)
         IN  /\ o.ledger_reads # <<>>
             /\ at = "write" => (~o.raised /\ o.ledger_writes # <<>>)
             /\ Processed(pc, item, failed, env)
    /\ follow' = [follow EXCEPT !.storage_failed = TRUE]
    /\ UNCHANGED adapters

\* the pass has returned or raised: the command goes on as after_pass says
EndPass ==
    /\ pc \in { "done", "raised" }
    /\ follow' = after_pass(follow, pc)
    /\ pc' = "idle"
    /\ dry_run' = FALSE
    /\ watchlist' = <<>>
    /\ results' = <<>>
    /\ summary' = SyncSummary
    /\ obs' = Observed("return", "none", FALSE, <<>>, NoItem, NoOutcome, "none")
    /\ UNCHANGED << config, plex_catalog, letterboxd_catalog, synced_items, letterboxd_metadata,
                    passes, history >>
    /\ UNCHANGED adapters

\* follow_mode.py 176: time.sleep(0.5)
Sleep ==
    /\ follow.pc = "sleep"
    /\ follow.now < MaxTime
    /\ follow' = [follow EXCEPT !.pc = "top", !.now = @ + 1]
    /\ UNCHANGED sync_state
    /\ UNCHANGED adapters

\* follow_mode.py 76-84: SIGINT or SIGTERM, at any point once the handler
\* is installed; the handler sets the flag and returns
Signal ==
    /\ follow.pc \in { "initial_plex", "initial_lbox", "top", "check_plex",
                       "check_lbox", "sleep" }
    /\ ~follow.shutdown_requested
    /\ follow' = [follow EXCEPT !.shutdown_requested = TRUE, !.signal_pc = pc,
                                !.signal_results = Len(results)]
    /\ UNCHANGED sync_state
    /\ UNCHANGED adapters

FollowNext ==
    \/ BeginPlex
    \/ SkipPlex
    \/ BeginLetterboxd
    \/ SkipLetterboxd
    \/ SyncItem
    \/ SyncLetterboxdItem
    \/ StorageFault
    \/ EndPass
    \/ Top
    \/ Sleep
    \/ Signal

FollowSpec == FollowInit /\ [][FollowNext]_vars

\* ------------------------------------- the sync command, its decorators
\* with_plex (core/decorators.py 48-76): sys.exit(1) when the ping fails
with_plex(status) == IF status = "ok" THEN "injected" ELSE "exit"

\* with_sonarr(optional) (core/decorators.py 79-116): the adapter, None, or
\* sys.exit(1)
with_sonarr(status, optional) ==
    IF status = "disabled"
    THEN IF optional THEN "none" ELSE "exit"
    ELSE IF status = "unreachable"
    THEN IF ~optional THEN "exit" ELSE "none"
    ELSE "injected"

\* with_radarr(optional) (core/decorators.py 119-156)
with_radarr(status, optional) ==
    IF status = "disabled"
    THEN IF optional THEN "none" ELSE "exit"
    ELSE IF status = "unreachable"
    THEN IF ~optional THEN "exit" ELSE "none"
    ELSE "injected"

ServiceStates ==
    [plex : { "ok", "unreachable" },
     radarr : { "disabled", "unreachable", "ok" },
     sonarr : { "disabled", "unreachable", "ok" }]

\* a movie and a series on the Plex watchlist
StartupCatalog == << PlexCatalog[1], PlexCatalog[3] >>

\* `lumarr sync` (single pass) from its start: no adapter is injected yet
StartupInit ==
    /\ plex_catalog = StartupCatalog
    /\ letterboxd_catalog = LetterboxdCatalog
    /\ config = [radarr |-> FALSE, sonarr |-> FALSE, tmdb |-> FALSE,
                 importable |-> FALSE, min_rating |-> 0,
                 min_rating_option |-> NoRating]
    /\ \E sv \in ServiceStates, names \in BOOLEAN, dry \in BOOLEAN :
         follow = [NotFollowing EXCEPT !.pc = "startup", !.services = sv,
                                       !.letterboxd_names = names, !.dry_run = dry]
    /\ Fresh

\* commands/sync.py 39-46: the decorators run outermost first (with_radarr,
\* with_sonarr, both optional=True, then with_plex); each either exits the
\* process or hands its adapter (or None) to the command
Startup ==
    /\ follow.pc = "startup"
    /\ LET radarr == with_radarr(follow.services.radarr, TRUE)
           sonarr == with_sonarr(follow.services.sonarr, TRUE)
           plex == with_plex(follow.services.plex)
       IN  IF "exit" \in { radarr, sonarr, plex }
           THEN /\ follow' = [follow EXCEPT !.pc = "exit_1"]
                /\ UNCHANGED config
           ELSE /\ follow' = [follow EXCEPT !.pc = "single_plex"]
                /\ config' = [config EXCEPT !.radarr = (radarr = "injected"),
                                            !.sonarr = (sonarr = "injected")]
    /\ UNCHANGED << plex_catalog, letterboxd_catalog, synced_items,
                    letterboxd_metadata, pc, dry_run, watchlist, results,
                    summary, obs, passes, history >>
    /\ UNCHANGED adapters

StartupNext ==
    \/ Startup
    \/ BeginPlex
    \/ SyncItem
    \/ BeginLetterboxd
    \/ SkipLetterboxd
    \/ SyncLetterboxdItem
    \/ EndPass

StartupSpec == StartupInit /\ [][StartupNext]_vars

\* ------------------------------------ the Letterboxd adapter's requests
\* a caller (fetch_watchlist, fetch_tmdb_id_from_page) starts a request
CallRequest ==
    /\ request.pc \in { "idle", "returned", "raised" }
    /\ request' = [NoRequest EXCEPT !.pc = "loop", !.base_delay = WATCHLIST_REQUEST_DELAY]
    /\ UNCHANGED << sync_state, follow, metadata_cache, clock, cache_max_age_days, plex_fetch >>

\* one turn of the loop of _request_with_retry
Attempt ==
    /\ request.pc = "loop"
    /\ \E answer \in Answers : request' = attempt_once(request, answer)
    /\ UNCHANGED << sync_state, follow, metadata_cache, clock, cache_max_age_days, plex_fetch >>

RetryInit ==
    /\ plex_catalog = PlexCatalog
    /\ letterboxd_catalog = LetterboxdCatalog
    /\ follow = NotFollowing
    /\ config = [radarr |-> TRUE, sonarr |-> TRUE, tmdb |-> TRUE,
                 importable |-> TRUE, min_rating |-> 0,
                 min_rating_option |-> NoRating]
    /\ Fresh

RetryNext ==
    \/ CallRequest
    \/ Attempt

RetrySpec == RetryInit /\ [][RetryNext]_vars

\* --------------------------------------- the Plex adapter's metadata cache
\* get_watchlist asks the details of rating_keys through the cache
FetchWithCache ==
    /\ \E rating_keys \in KeyLists :
         \E fetched \in BatchAnswers(needs_fetch_of(metadata_cache, rating_keys,
                                                   cache_max_age_days, clock)) :
           LET o == _fetch_with_cache(metadata_cache, rating_keys,
                                      cache_max_age_days, clock, fetched)
           IN  /\ metadata_cache' = o.metadata_cache
               /\ plex_fetch' = [op |-> "fetch", rating_keys |-> rating_keys,
                                 at |-> clock, before |-> metadata_cache,
                                 needs_fetch |-> o.needs_fetch, fetched |-> fetched,
                                 result |-> o.result]
    /\ UNCHANGED << sync_state, follow, request, clock, cache_max_age_days >>

\* a day passes
Tick ==
    /\ clock < MaxDay
    /\ clock' = clock + 1
    /\ UNCHANGED << sync_state, follow, request, metadata_cache, cache_max_age_days, plex_fetch >>

CacheInit ==
    /\ plex_catalog = PlexCatalog
    /\ letterboxd_catalog = LetterboxdCatalog
    /\ follow = NotFollowing
    /\ config = [radarr |-> TRUE, sonarr |-> TRUE, tmdb |-> TRUE,
                 importable |-> TRUE, min_rating |-> 0,
                 min_rating_option |-> NoRating]
    /\ NoPass
    /\ AdaptersIdle
    /\ cache_max_age_days \in 0..MaxAge

CacheNext ==
    \/ FetchWithCache
    \/ Tick

CacheSpec == CacheInit /\ [][CacheNext]_vars

\* ------------------------------------------------------------- properties
Destination(item) == IF item.media_type = MOVIE THEN RADARR ELSE SONARR

Configured(item) == IF item.media_type = MOVIE THEN config.radarr ELSE config.sonarr

RequiredId(media_type, ids) == IF media_type = MOVIE THEN ids.tmdb_id ELSE ids.tvdb_id

RowsFor(rows, key, svc) ==
    { r \in rows : r.rating_key = key /\ r.target_service = svc }

AlreadySyncedTexts == { MsgAlreadyRadarr, MsgAlreadySonarr, MsgAlreadySynced }

FailedCount(rs) == Cardinality({ i \in 1..Len(rs) : rs[i].status = FAILED })

\* C1: once an add call for an item has returned (and the history was not
\* cleared since), every later pass over the item returns Skipped, "already
\* synced", with no add call, no page fetch and no TMDB lookup; so no item is
\* forwarded successfully more than once.
C1_SyncedItemIsSkipped ==
    /\ [](\A p \in Keys \X Services : forwards[p] <= 1)
    /\ [][ ( /\ obs'.op = "item"
             /\ forwards[<< obs'.item.rating_key, Destination(obs'.item) >>] >= 1 )
           => /\ ~obs'.raised
              /\ obs'.result.status = SKIPPED
              /\ obs'.result.message \in AlreadySyncedTexts
              /\ obs'.add_calls = <<>>
              /\ obs'.fetch_calls = <<>>
              /\ obs'.lookups = <<>>
              /\ synced_items' = synced_items ]_vars

C1_Forwarded_Then_Skipped ==
    /\ obs.op = "item"
    /\ ~obs.dry_run
    /\ forwards[<< obs.item.rating_key, Destination(obs.item) >>] = 1
    /\ obs.result.status = SKIPPED
    /\ obs.result.message \in AlreadySyncedTexts
    /\ obs.add_calls = <<>>

\* C2: processing an item in a dry-run pass changes is_synced for no pair,
\* and a later real pass over an item a dry run has previewed, still not
\* synced, calls the destination's add once with the item's ids whenever the
\* required id is there after resolution.
C2_DryRunThenRealRun ==
    /\ [][ (obs'.op = "item" /\ obs'.dry_run)
           => \A p \in Keys \X Services :
                 is_synced(synced_items', p[1], p[2]) = is_synced(synced_items, p[1], p[2]) ]_vars
    /\ [][ ( /\ obs'.op = "item"
             /\ ~obs'.dry_run
             /\ obs'.item.rating_key \in previewed
             /\ ~is_synced(synced_items, obs'.item.rating_key, Destination(obs'.item))
             /\ Truthy(RequiredId(obs'.item.media_type, obs'.result.provider_ids)) )
           => obs'.add_calls = << obs'.result.provider_ids >> ]_vars

C2_Previewed_Then_Added ==
    /\ obs.op = "item"
    /\ ~obs.dry_run
    /\ obs.item.rating_key \in previewed
    /\ Len(obs.add_calls) = 1
    /\ obs.add_returned = "ok"
    /\ obs.result.status = SUCCESS
    /\ forwards[<< obs.item.rating_key, Destination(obs.item) >>] = 1

\* C3: nothing a dry run does (a fetch, an item, the baseline of a dry-run
\* command) changes the set of ledger rows.
C3_DryRunWritesNoLedgerRows ==
    [][ (obs'.dry_run /\ obs'.op \in { "fetch", "item", "baseline" })
        => synced_items' = synced_items ]_vars

\* C4: an item whose add call raises the destination's error gets a Failed
\* result, is counted once as failed, and the pass goes on to the next item;
\* a finished pass has one result per fetched item, in order, total equal to
\* the batch size and failed equal to the number of Failed results.
C4_FailureIsolation ==
    /\ [][ (obs'.op = "item" /\ obs'.add_returned = "error")
           => /\ ~obs'.raised
              /\ obs'.result.status = FAILED
              /\ results' = Append(results, obs'.result)
              /\ summary'.failed = summary.failed + 1
              /\ summary'.total = Len(watchlist)
              /\ pc' = IF Len(results') = Len(watchlist) THEN "done" ELSE pc ]_vars
    /\ [](pc = "done" =>
            /\ summary.total = Len(watchlist)
            /\ Len(results) = Len(watchlist)
            /\ summary.failed = FailedCount(results)
            /\ \A i \in 1..Len(results) : results[i].rating_key = watchlist[i].rating_key)

C4_Middle_Item_Failed ==
    /\ pc = "done"
    /\ ~dry_run
    /\ Len(watchlist) = 3
    /\ results[1].status = SUCCESS
    /\ results[2].status = FAILED /\ results[2].message = MsgAddFailed
    /\ results[3].status = SUCCESS
    /\ summary.total = 3 /\ summary.failed = 1

C6_OneRowPerPair ==
    /\ [](\A p \in Keys \X Services : Cardinality(RowsFor(synced_items, p[1], p[2])) <= 1)
    /\ [][ (obs'.op \in { "item", "baseline" })
           => \A i \in 1..Len(obs'.ledger_writes) :
                 LET w == obs'.ledger_writes[i]
                 IN  RowsFor(synced_items', w.rating_key, w.target_service) = { w } ]_vars

C6_Failed_Then_Success ==
    /\ obs.op = "item"
    /\ Len(obs.ledger_writes) = 1
    /\ obs.ledger_writes[1].status = SUCCESS
    /\ << obs.item.rating_key, Destination(obs.item) >> \in add_failures
    /\ RowsFor(synced_items, obs.item.rating_key, Destination(obs.item))
         = { obs.ledger_writes[1] }

\* C7: is_synced(key, service) holds exactly when the ledger has a row with
\* that key, that service and status success; and an item whose destination
\* is configured is skipped exactly when such a row exists for it.
C7_IsSyncedIffSuccessRow ==
    /\ [](\A key \in Keys, svc \in Services :
            is_synced(synced_items, key, svc)
              <=> \E r \in synced_items :
                     r.rating_key = key /\ r.target_service = svc /\ r.status = SUCCESS)
    /\ [][ (obs'.op = "item" /\ Configured(obs'.item))
           => ( obs'.result.status = SKIPPED
                  <=> \E r \in synced_items :
                         /\ r.rating_key = obs'.item.rating_key
                         /\ r.target_service = Destination(obs'.item)
                         /\ r.status = SUCCESS ) ]_vars

C7_Failed_Row_Not_Synced ==
    \E r, q \in synced_items :
        /\ r.status = FAILED
        /\ ~is_synced(synced_items, r.rating_key, r.target_service)
        /\ q.status = SUCCESS
        /\ is_synced(synced_items, q.rating_key, q.target_service)
        /\ \A svc \in Services \ { q.target_service } :
              ~is_synced(synced_items, q.rating_key, svc)
        /\ ~is_synced(synced_items, r.rating_key, q.target_service)

ForwardFailed(rows, item) ==
    \E r \in RowsFor(rows, item.rating_key, Destination(item)) :
        r.status = FAILED /\ r.error_message = MsgAddFailed

\* C8 as stated: an item whose ledger row is the Failed row of a forward
\* failure is not skipped by the next real pass, and that pass calls the
\* destination's add for it.
C8_FailedItemIsForwardedAgain ==
    [][ (obs'.op = "item" /\ ~obs'.dry_run /\ ForwardFailed(synced_items, obs'.item))
        => (obs'.result.status # SKIPPED /\ Len(obs'.add_calls) = 1) ]_vars

\* C8 amended: such an item is not skipped; the add is called once when the
\* required id is there after resolution, and when it is not the item is
\* recorded Failed without an add call.
C8_FailedItemIsRetried ==
    [][ (obs'.op = "item" /\ ~obs'.dry_run /\ ForwardFailed(synced_items, obs'.item))
        => /\ ~obs'.raised
           /\ obs'.result.status # SKIPPED
           /\ IF Truthy(RequiredId(obs'.item.media_type, obs'.result.provider_ids))
              THEN obs'.add_calls = << obs'.result.provider_ids >>
              ELSE obs'.add_calls = <<>> /\ obs'.result.status = FAILED ]_vars

C8_Retried_After_Failure ==
    /\ obs.op = "item"
    /\ ~obs.dry_run
    /\ << obs.item.rating_key, Destination(obs.item) >> \in add_failures
    /\ Len(obs.add_calls) = 1
    /\ obs.add_returned = "ok"
    /\ obs.result.status = SUCCESS

\* C9: a Success row stays as it is, alone for its pair and not written
\* again, through every operation but clear_history.
C9_SuccessIsSticky ==
    [][ obs'.op # "clear"
        => \A r \in synced_items :
              r.status = SUCCESS
                => /\ RowsFor(synced_items', r.rating_key, r.target_service) = { r }
                   /\ is_synced(synced_items', r.rating_key, r.target_service)
                   /\ \A i \in 1..Len(obs'.ledger_writes) :
                         ~( /\ obs'.ledger_writes[i].rating_key = r.rating_key
                            /\ obs'.ledger_writes[i].target_service = r.target_service ) ]_vars

C9_Baseline_Over_Forwarded_Item ==
    /\ obs.op = "baseline"
    /\ \E i \in 1..Len(obs.fetched) :
          LET item == obs.fetched[i] IN
          /\ forwards[<< item.rating_key, Destination(item) >>] = 1
          /\ is_synced(synced_items, item.rating_key, Destination(item))
          /\ \A j \in 1..Len(obs.ledger_writes) :
                obs.ledger_writes[j].rating_key # item.rating_key

\* C10: a movie fetched with its TMDB id, Radarr configured, not synced, in
\* a real pass: add_movie is called once, with that TMDB id; when it returns,
\* the result is Success and is_synced holds afterwards.
C10_MovieWithTmdbIdIsForwarded ==
    [][ ( /\ obs'.op = "item"
          /\ obs'.item.media_type = MOVIE
          /\ Truthy(obs'.item.provider_ids.tmdb_id)
          /\ config.radarr
          /\ ~is_synced(synced_items, obs'.item.rating_key, RADARR)
          /\ ~obs'.dry_run )
        => /\ Len(obs'.add_calls) = 1
           /\ obs'.add_calls[1].tmdb_id = obs'.item.provider_ids.tmdb_id
           /\ obs'.add_returned = "ok"
                => /\ obs'.result.status = SUCCESS
                   /\ obs'.result.target_service = RADARR
                   /\ is_synced(synced_items', obs'.item.rating_key, RADARR) ]_vars

C10_Movie_Forwarded ==
    /\ obs.op = "item"
    /\ obs.item.rating_key = "p1"
    /\ obs.add_calls = << ProviderId("603", None_, None_) >>
    /\ obs.result.status = SUCCESS
    /\ is_synced(synced_items, "p1", RADARR)

MissingIdTexts(media_type) ==
    IF media_type = MOVIE
    THEN { MsgMovieConfigureTmdb, MsgMovieLookupFailed, MsgMovieNoIds }
    ELSE { MsgShowConfigureTmdb, MsgShowLookupFailed, MsgShowNoIds }

RequiredColumn(row) == IF row.media_type = MOVIE THEN row.tmdb_id ELSE row.tvdb_id

\* the last operation processed an item that was neither skipped nor left
\* by an exception
Attempted == obs.op = "item" /\ ~obs.raised /\ obs.result.status # SKIPPED

\* C11: an item that lacks its destination's identifier after resolution
\* ends Failed with one of the missing-identifier texts ("required for" the
\* destination when it has no identifier at all), no add call is made, the
\* ledger has the Failed row of (key, destination) with that text and a null
\* required identifier, and the pass goes on.
C11_MissingIdentifierFails ==
    ( /\ Attempted
      /\ ~Truthy(RequiredId(obs.item.media_type, obs.result.provider_ids)) )
    => /\ obs.result.status = FAILED
       /\ obs.result.message \in MissingIdTexts(obs.item.media_type)
       /\ ( obs.result.provider_ids = ProviderId(None_, None_, None_)
              => obs.result.message \in { MsgMovieNoIds, MsgShowNoIds } )
       /\ obs.add_calls = <<>>
       /\ Len(obs.ledger_writes) = 1
       /\ LET row == obs.ledger_writes[1] IN
            /\ row.status = FAILED
            /\ row.error_message = obs.result.message
            /\ RequiredColumn(row) = None_
            /\ RowsFor(synced_items, obs.item.rating_key, Destination(obs.item)) = { row }
       /\ results # <<>> /\ results[Len(results)] = obs.result
       /\ pc = IF Len(results) = Len(watchlist) THEN "done" ELSE obs.pass

C11_Movie_Without_Ids_Failed ==
    /\ Attempted
    /\ obs.item.media_type = MOVIE
    /\ obs.item.provider_ids = ProviderId(None_, None_, None_)
    /\ ~config.tmdb
    /\ obs.result.status = FAILED
    /\ obs.result.message = MsgMovieNoIds
    /\ pc = "plex"
    /\ \E r \in synced_items : r.rating_key = obs.item.rating_key /\ r.status = FAILED

\* C12: every add_movie call carries a non-empty TMDB id and every
\* add_series call a non-empty TVDB id.
C12_AddCallsCarryRequiredId ==
    obs.op = "item"
      => \A i \in 1..Len(obs.add_calls) :
            Truthy(RequiredId(obs.item.media_type, obs.add_calls[i]))

C12_Resolved_Id_Sent ==
    /\ obs.op = "item"
    /\ obs.item.media_type = TV_SHOW
    /\ ~Truthy(obs.item.provider_ids.tvdb_id)
    /\ Len(obs.add_calls) = 1
    /\ Truthy(obs.add_calls[1].tvdb_id)

\* C13: processing an item always ends with a returned result, never with
\* an exception leaving _sync_item / _sync_movie.
C13_ItemErrorsNeverEscape ==
    obs.op = "item" => ~obs.raised

\* C14: a dry-run item step makes no add call, and an item that is to be
\* forwarded (destination configured, not synced, required id there after
\* resolution) is reported Success with the dry-run text.
C14_DryRunMakesNoAddCall ==
    (obs.op = "item" /\ obs.dry_run)
    => /\ obs.add_calls = <<>>
       /\ obs.add_returned = "none"
       /\ ( /\ Attempted
            /\ Truthy(RequiredId(obs.item.media_type, obs.result.provider_ids)) )
          => /\ obs.result.status = SUCCESS
             /\ obs.result.message \in { MsgDryRunRadarr, MsgDryRunSonarr }
             /\ ~is_synced(synced_items, obs.item.rating_key, Destination(obs.item))

C14_DryRun_Resolved_Success ==
    /\ obs.op = "item"
    /\ obs.dry_run
    /\ obs.item.media_type = MOVIE
    /\ ~Truthy(obs.item.provider_ids.tmdb_id)
    /\ obs.result.provider_ids.tmdb_id = "603"
    /\ obs.result.status = SUCCESS
    /\ obs.add_calls = <<>>

\* a Success row of the pair that no returned add call accounts for: only
\* establish_baseline writes such a row
Baselined(key, svc) ==
    /\ forwards[<< key, svc >>] = 0
    /\ \E r \in RowsFor(synced_items, key, svc) : r.status = SUCCESS

\* C20: establish_baseline makes no add call and leaves is_synced true for
\* every item it fetched whose destination is configured; a later pass over
\* an item so marked reports it Skipped and makes no add call for it.
C20_BaselineMarksWithoutForwarding ==
    /\ obs.op = "baseline"
         => /\ obs.add_calls = <<>>
            /\ obs.add_returned = "none"
            /\ \A i \in 1..Len(obs.fetched) :
                  Configured(obs.fetched[i])
                    => is_synced(synced_items, obs.fetched[i].rating_key,
                                 Destination(obs.fetched[i]))
            /\ \A i \in 1..Len(obs.ledger_writes) :
                  /\ obs.ledger_writes[i].status = SUCCESS
                  /\ forwards[<< obs.ledger_writes[i].rating_key,
                                 obs.ledger_writes[i].target_service >>] = 0
    /\ (obs.op = "item" /\ Baselined(obs.item.rating_key, Destination(obs.item)))
         => /\ obs.result.status = SKIPPED
            /\ obs.result.message \in AlreadySyncedTexts
            /\ obs.add_calls = <<>>

C20_Baselined_Item_Skipped ==
    /\ obs.op = "item"
    /\ ~obs.dry_run
    /\ obs.item.rating_key = "p1"
    /\ Baselined("p1", RADARR)
    /\ obs.result.status = SKIPPED
    /\ \A p \in Keys \X Services : forwards[p] = 0

\* a pass is started by this step
PassStarts == pc = "idle" /\ pc' # "idle"

LoopPcs == { "top", "check_plex", "check_lbox", "sleep" }

\* C15: once a ledger operation has failed, no pass is started and no add
\* call returns any more.
C15_StorageErrorIsFatal ==
    [][ follow.storage_failed => (~PassStarts /\ forwards' = forwards) ]_vars

\* C16: a tick of a source made after a tick of that source has raised is
\* made at least one interval after it.
C16_FailedTickWaitsFullInterval ==
    /\ (follow.pc = "check_plex" /\ pc # "idle" /\ follow.tick_raised.plex >= 0)
         => follow.current_time - follow.tick_raised.plex >= PlexInterval
    /\ (follow.pc = "check_lbox" /\ pc # "idle" /\ follow.tick_raised.lbox >= 0)
         => follow.current_time - follow.tick_raised.lbox >= LboxInterval

\* C17: when the pass of a tick has raised, the loop goes on to its next
\* position with the shutdown flag as it was; a follow-mode run is never
\* ended by an exception, and it stops only when shutdown was requested.
C17_TickErrorsDoNotStopLoop ==
    /\ [][ (follow.pc \in { "check_plex", "check_lbox" } /\ pc = "raised" /\ pc' = "idle")
           => /\ follow'.pc = IF follow.pc = "check_plex" THEN "check_lbox" ELSE "sleep"
              /\ follow'.shutdown_requested = follow.shutdown_requested ]_vars
    /\ [](follow.initial # {} => follow.pc # "aborted")
    /\ [](follow.pc = "stopped" => follow.shutdown_requested)

C17_Both_Sources_Tick_After_Error ==
    /\ follow.ticked_after_error = { "plex", "lbox" }
    /\ follow.tick_raised.plex >= 0
    /\ ~follow.shutdown_requested
    /\ follow.pc \in LoopPcs

\* C18: when the loop is entered, the initial sync has fetched the Plex
\* watchlist and, Letterboxd being configured, the Letterboxd lists.
C18_InitialSyncRunsBothSources ==
    follow.pc \in LoopPcs \cup { "stopped" }
      => /\ "plex" \in follow.initial
         /\ has_letterboxd(follow, config) => "lbox" \in follow.initial

\* C19: at the top of the loop with the flag set the loop stops, starting
\* nothing; the signal changes the flag alone; nothing happens once stopped;
\* an item processed while the flag is set is processed as ever (its add
\* call's Success row is written, its result appended), and the loop never
\* stops in the middle of a pass.
C19_ShutdownStopsLoop ==
    /\ [][ (follow.pc = "top" /\ follow.shutdown_requested)
           => (follow'.pc = "stopped" /\ UNCHANGED sync_state) ]_vars
    /\ [][ (follow'.shutdown_requested /\ ~follow.shutdown_requested)
           => (follow'.pc = follow.pc /\ UNCHANGED sync_state) ]_vars
    /\ [][ follow.pc = "stopped" => UNCHANGED vars ]_vars
    /\ [][ ( /\ follow.shutdown_requested
             /\ pc \in { "plex", "letterboxd" }
             /\ results' # results
             /\ obs'.add_returned = "ok" )
           => /\ results' = Append(results, obs'.result)
              /\ obs'.result.status = SUCCESS
              /\ is_synced(synced_items', obs'.item.rating_key, Destination(obs'.item)) ]_vars
    /\ [](follow.pc = "stopped" => pc = "idle")

C19_Stopped_After_Item_In_Flight ==
    /\ follow.pc = "stopped"
    /\ follow.signal_pc = "plex"
    /\ follow.signal_results = 0
    /\ follow.now = 0
    /\ forwards[<< "p1", RADARR >>] = 1
    /\ is_synced(synced_items, "p1", RADARR)

\* C22: an item whose destination is not configured (a movie without Radarr,
\* a series without Sonarr) gets the result Skipped, "not configured", and
\* processing it reads and writes no ledger row, fetches no page, makes no
\* TMDB lookup and no add call.
C22_UnconfiguredDestinationSkips ==
    ( /\ obs.op = "item"
      /\ ~Configured(obs.item) )
    => /\ ~obs.raised
       /\ obs.result.status = SKIPPED
       /\ obs.result.message \in { MsgRadarrNotConfigured, MsgSonarrNotConfigured }
       /\ obs.result.target_service = Destination(obs.item)
       /\ obs.ledger_reads = <<>>
       /\ obs.ledger_writes = <<>>
       /\ obs.fetch_calls = <<>>
       /\ obs.lookups = <<>>
       /\ obs.add_calls = <<>>
       /\ RowsFor(synced_items, obs.item.rating_key, Destination(obs.item)) = {}

C22_Unconfigured_Movie_And_Series_Skipped ==
    /\ obs.op = "item"
    /\ obs.item.media_type = TV_SHOW
    /\ ~config.sonarr
    /\ ~config.radarr
    /\ config.tmdb
    /\ Len(results) = 2
    /\ results[1].status = SKIPPED
    /\ results[1].message = MsgRadarrNotConfigured
    /\ results[2].status = SKIPPED
    /\ results[2].message = MsgSonarrNotConfigured
    /\ synced_items = {}

\* C23: within one sync() call the results list holds one result per fetched
\* watchlist item, in the order the items were fetched: while the call runs
\* the results are those of the first items of the list, and when it returns
\* there is one for every item.
C23_ResultsFollowFetchOrder ==
    ( /\ pc \in { "plex", "done" }
      /\ obs.pass = "plex" )
    => /\ Len(results) <= Len(watchlist)
       /\ \A i \in 1..Len(results) : results[i].rating_key = watchlist[i].rating_key
       /\ pc = "done" => Len(results) = Len(watchlist)
       /\ summary.total = Len(watchlist)
       /\ summary.movies_added + summary.shows_added + summary.skipped
            + summary.failed = Len(results)

C23_Three_Results_In_Order ==
    /\ pc = "done"
    /\ obs.pass = "plex"
    /\ Len(watchlist) = 3
    /\ Len(results) = 3
    /\ results[1].status = SUCCESS
    /\ results[2].status = FAILED
    /\ results[3].status = SKIPPED
    /\ \A i \in 1..3 : results[i].rating_key = watchlist[i].rating_key

C26_SeriesLookupFromAnyId ==
    ( /\ obs.op = "item"
      /\ obs.item.media_type = TV_SHOW
      /\ config.sonarr
      /\ config.tmdb
      /\ obs.result.message # MsgAlreadySonarr
      /\ ~Truthy(obs.item.provider_ids.tvdb_id)
      /\ Truthy(obs.item.provider_ids.tmdb_id) \/ Truthy(obs.item.provider_ids.imdb_id) )
    => obs.lookups # <<>>

\* C27: for a movie without a TMDB id, with TMDB configured, the lookup by
\* TVDB id comes first and the lookup by IMDB id second; the second is made
\* exactly when the movie has an IMDB id and the first gave no TMDB id (or
\* there was no TVDB id to look up), and never after the first gave one.
C27_SecondLookupAfterFirstMiss ==
    ( /\ obs.op = "item"
      /\ obs.pass = "plex"
      /\ obs.item.media_type = MOVIE
      /\ config.radarr
      /\ config.tmdb
      /\ obs.result.message # MsgAlreadyRadarr
      /\ ~Truthy(obs.item.provider_ids.tmdb_id) )
    => LET ids == obs.item.provider_ids
           first == Truthy(ids.tvdb_id)
           second == Len(obs.lookups) >= 1 /\ obs.lookups[Len(obs.lookups)] = "imdb_id"
       IN  /\ obs.lookups \in { <<>>, << "tvdb_id" >>, << "imdb_id" >>,
                                << "tvdb_id", "imdb_id" >> }
           /\ first <=> (Len(obs.lookups) >= 1 /\ obs.lookups[1] = "tvdb_id")
           /\ ~Truthy(ids.imdb_id) => ~second
           /\ (Truthy(ids.imdb_id) /\ ~Truthy(obs.result.provider_ids.tmdb_id))
                => second

C25_MinRatingOptionFilters ==
    ( /\ obs.op = "item"
      /\ obs.pass = "letterboxd"
      /\ config.min_rating_option.rated
      /\ obs.add_calls # <<>> )
    => /\ obs.item.rating.rated
       /\ obs.item.rating.value >= config.min_rating_option.value

\* C21: if Plex or an enabled destination is unreachable when the command
\* starts (its connection test fails), the process exits before any sync
\* attempt: no watchlist is fetched and no item is processed, so no pass
\* runs with that destination treated as not configured.
C21_UnreachableServiceStopsStartup ==
    ( \/ follow.services.plex = "unreachable"
      \/ follow.services.radarr = "unreachable"
      \/ follow.services.sonarr = "unreachable" )
    => /\ follow.pc # "exited"
       /\ pc = "idle"
       /\ obs.op = "init"

\* C31: a movie that already has its TMDB id goes through identifier
\* resolution unchanged: no film page is fetched, the Letterboxd id cache is
\* left as it was, no TMDB lookup is made, and the result and the add call
\* carry the three identifiers the item came with.
C31_PresentIdIsNotResolved ==
    [][ ( /\ obs'.op = "item"
          /\ obs'.item.media_type = MOVIE
          /\ Truthy(obs'.item.provider_ids.tmdb_id)
          /\ config.radarr
          /\ ~is_synced(synced_items, obs'.item.rating_key, RADARR) )
        => /\ ~obs'.raised
           /\ obs'.fetch_calls = <<>>
           /\ obs'.lookups = <<>>
           /\ letterboxd_metadata' = letterboxd_metadata
           /\ page_fetches' = page_fetches
           /\ obs'.result.provider_ids = obs'.item.provider_ids
           /\ \A i \in 1..Len(obs'.add_calls) :
                 obs'.add_calls[i] = obs'.item.provider_ids ]_vars

C31_Movie_With_Id_And_Lookup_Configured ==
    /\ obs.op = "item"
    /\ obs.item.media_type = MOVIE
    /\ obs.item.provider_ids = ProviderId("603", None_, "tt0133093")
    /\ config.tmdb
    /\ obs.lookups = <<>>
    /\ obs.result.status = SUCCESS
    /\ obs.add_returned = "ok"
    /\ obs.add_calls = << obs.item.provider_ids >>

\* C32: when the intervals of both sources have elapsed at the same loop
\* iteration, the source whose interval elapsed first is serviced first: the
\* Plex pass is not the one run first while Letterboxd is due with the
\* earlier deadline.
C32_EarlierDeadlineServedFirst ==
    ( /\ follow.pc = "check_plex"
      /\ pc # "idle"
      /\ has_letterboxd(follow, config)
      /\ lbox_due(follow) )
    => follow.last_plex_sync + PlexInterval <= follow.last_lbox_sync + LboxInterval

\* C33: the two timers are independent.  In each loop iteration the Plex
\* pass is run if and only if the Plex interval has elapsed since the last
\* Plex timestamp, and the Letterboxd pass (when Letterboxd is configured) if
\* and only if the Letterboxd interval has elapsed since the last Letterboxd
\* timestamp; a tick of one source leaves the other's timestamp alone, and a
\* Plex tick that raised is followed by the Letterboxd check of the same
\* iteration.
C33_TimersAreIndependent ==
    [][ /\ ( /\ follow.pc = "check_plex"
             /\ pc = "idle"
             /\ (pc' # "idle" \/ follow'.pc = "check_lbox") )
           => ( pc' # "idle"
                  <=> follow.current_time - follow.last_plex_sync >= PlexInterval )
        /\ ( /\ follow.pc = "check_lbox"
             /\ pc = "idle"
             /\ (pc' # "idle" \/ follow'.pc = "sleep") )
           => ( pc' # "idle"
                  <=> ( /\ follow.letterboxd_names
                        /\ config.radarr
                        /\ follow.current_time - follow.last_lbox_sync >= LboxInterval ) )
        /\ follow.pc = "check_plex" => follow'.last_lbox_sync = follow.last_lbox_sync
        /\ follow.pc = "check_lbox" => follow'.last_plex_sync = follow.last_plex_sync
        /\ (follow.pc = "check_plex" /\ pc \in { "done", "raised" } /\ pc' = "idle")
             => follow'.pc = "check_lbox" ]_vars

C33_Letterboxd_Runs_After_Plex_Raised ==
    /\ follow.pc = "check_lbox"
    /\ pc = "letterboxd"
    /\ ~follow.shutdown_requested
    /\ follow.tick_raised.plex = follow.current_time
    /\ follow.current_time - follow.last_lbox_sync = LboxInterval

\* C34: when the required identifier is missing, the failure text is the
\* "lookup failed" one whenever a reverse lookup was made without giving the
\* identifier, the "configure the lookup" one whenever the item has another
\* identifier and TMDB is not configured, and the plain "required for" one
\* only when the item has no other identifier to look up; for movies and
\* for series.
C34_MessageNamesTheCause ==
    ( /\ obs.op = "item"
      /\ obs.pass = "plex"
      /\ obs.result.status = FAILED
      /\ obs.result.message \in MissingIdTexts(obs.item.media_type) )
    => LET ids == obs.item.provider_ids
           movie == obs.item.media_type = MOVIE
           other == IF movie
                    THEN Truthy(ids.tvdb_id) \/ Truthy(ids.imdb_id)
                    ELSE Truthy(ids.tmdb_id) \/ Truthy(ids.imdb_id)
           msg == obs.result.message
       IN  /\ obs.lookups # <<>> => msg \in { MsgMovieLookupFailed, MsgShowLookupFailed }
           /\ (other /\ ~config.tmdb) => msg \in { MsgMovieConfigureTmdb, MsgShowConfigureTmdb }
           /\ msg \in { MsgMovieNoIds, MsgShowNoIds } => ~other

\* C35: when an add call has returned, the Success row written for the item
\* holds the three identifiers the item had when the call was made (TMDB,
\* TVDB and IMDB id alike), for a movie and for a series.
C35_SuccessRowHoldsEveryId ==
    ( /\ obs.op = "item"
      /\ obs.add_returned = "ok"
      /\ ~obs.raised )
    => /\ Len(obs.ledger_writes) = 1
       /\ LET row == obs.ledger_writes[1]
              ids == obs.add_calls[1]
          IN  /\ row.status = SUCCESS
              /\ row.tmdb_id = ids.tmdb_id
              /\ row.tvdb_id = ids.tvdb_id
              /\ row.imdb_id = ids.imdb_id

\* the wait a Retry-After header asks for, in tenths of a second: its
\* delay-seconds, or the time from the response to its HTTP-date (the
\* responses here are dated 20:00:00)
RetryAfterHint(header) ==
    IF header = "Thu, 05 Nov 2026 20:00:03 GMT" THEN 30 ELSE float(header).value

\* C36: a call of _request_with_retry sends at most MAX_REQUEST_RETRIES
\* requests and then is over; the wait before a retry is the Retry-After
\* hint of the 429 just received when it carries one, and not less than the
\* base delay, and otherwise the base delay times the number of the attempt
\* just made; a call that returns returns a response that is no 429 and no
\* error status.
C36_BoundedRetriesHintedWaits ==
    /\ request.sent <= MAX_REQUEST_RETRIES
    /\ request.pc = "loop" => request.sent < MAX_REQUEST_RETRIES
    /\ \A k \in 1..Len(request.slept) :
         LET a == request.answers[k]
         IN  IF ~a.raised /\ a.retry_after # None_
             THEN request.slept[k] = Max(RetryAfterHint(a.retry_after), request.base_delay)
             ELSE request.slept[k] = request.base_delay * k
    /\ request.pc = "returned"
         => /\ request.response.status_code # 429
            /\ ~raise_for_status(request.response)

\* C37: is_cache_stale is true exactly for a key without an entry or with
\* an entry older than max_age_days; _fetch_with_cache serves a key with a
\* fresh entry from the cache without asking the source for it, asks the
\* source for every other key, and stores what the source returns for such
\* a key with the time of the call as cached_at.
C37_StalenessGovernsRefetch ==
    plex_fetch.op = "fetch"
    => \A i \in 1..Len(plex_fetch.rating_keys) :
         LET k == plex_fetch.rating_keys[i]
             rows == { row \in plex_fetch.before : row.rating_key = k }
             fresh == \E row \in rows :
                        plex_fetch.at - fromisoformat(row.cached_at) <= cache_max_age_days
             asked == { plex_fetch.needs_fetch[j] : j \in 1..Len(plex_fetch.needs_fetch) }
         IN  /\ is_cache_stale(plex_fetch.before, k, cache_max_age_days, plex_fetch.at)
                  <=> ~fresh
             /\ fresh => /\ k \notin asked
                         /\ k \in DOMAIN plex_fetch.result
                         /\ \E row \in rows : plex_fetch.result[k] = row.metadata
                         /\ rows \subseteq metadata_cache
             /\ ~fresh => /\ k \in asked
                          /\ k \in DOMAIN plex_fetch.fetched
                               => /\ plex_fetch.result[k] = plex_fetch.fetched[k]
                                  /\ [rating_key |-> k,
                                       metadata |-> plex_fetch.fetched[k],
                                       cached_at |-> isoformat(plex_fetch.at)]
                                       \in metadata_cache

\* one key served from an entry exactly max_age_days old, the other stale,
\* asked and stored again
C37_Fresh_At_Max_Age_And_Stale_Refetched ==
    /\ plex_fetch.op = "fetch"
    /\ cache_max_age_days = 1
    /\ plex_fetch.rating_keys = << "p1", "p2" >>
    /\ plex_fetch.needs_fetch = << "p2" >>
    /\ \E row \in plex_fetch.before :
         /\ row.rating_key = "p1"
         /\ plex_fetch.at - fromisoformat(row.cached_at) = cache_max_age_days
    /\ \E row \in plex_fetch.before :
         /\ row.rating_key = "p2"
         /\ plex_fetch.at - fromisoformat(row.cached_at) > cache_max_age_days
    /\ "p2" \in DOMAIN plex_fetch.fetched

\* C38: when sync() has returned, total is the number of items fetched and
\* the number of results, each counter is the number of items of its kind
\* (movies added: Success and a movie; shows added: Success and a series;
\* skipped; failed), and the four counters add up to total.
C38_CountersPartitionTheItems ==
    ( /\ pc = "done"
      /\ obs.pass = "plex" )
    => LET n == Len(watchlist)
           With(status, kinds) ==
               Cardinality({ i \in 1..n : /\ results[i].status = status
                                           /\ watchlist[i].media_type \in kinds })
       IN  /\ summary.total = n
           /\ Len(results) = n
           /\ summary.movies_added = With(SUCCESS, { MOVIE })
           /\ summary.shows_added = With(SUCCESS, { TV_SHOW })
           /\ summary.skipped = With(SKIPPED, { MOVIE, TV_SHOW })
           /\ summary.failed = With(FAILED, { MOVIE, TV_SHOW })
           /\ summary.movies_added + summary.shows_added + summary.skipped
                + summary.failed = summary.total

C38_Movie_Show_And_Failure_Counted ==
    /\ pc = "done"
    /\ obs.pass = "plex"
    /\ summary.total = 3
    /\ summary.movies_added = 1
    /\ summary.shows_added = 1
    /\ summary.failed = 1
    /\ summary.skipped = 0

\* C39: a Success row enters the ledger only in the step of an item whose
\* add call for that key has just returned, or in a step of
\* establish_baseline; an item whose add call did not return (dry run,
\* missing identifier, destination error, skip) writes no Success row.
C39_SuccessRowsAreAccountedFor ==
    [][ /\ \A row \in synced_items' \ synced_items :
             row.status = SUCCESS
               => \/ obs'.op = "baseline"
                  \/ /\ obs'.op = "item"
                     /\ obs'.add_returned = "ok"
                     /\ Len(obs'.add_calls) = 1
                     /\ row.rating_key = obs'.item.rating_key
                     /\ row \in { obs'.ledger_writes[i] : i \in 1..Len(obs'.ledger_writes) }
        /\ (obs'.op = "item" /\ obs'.add_returned # "ok")
             => \A i \in 1..Len(obs'.ledger_writes) :
                  obs'.ledger_writes[i].status # SUCCESS ]_vars

\* a forwarded item and a baselined one side by side: the add call of the
\* second had raised, and its Success row is the one of the baseline
C39_Forwarded_And_Baselined_Rows ==
    /\ forwards[<< "p1", RADARR >>] = 1
    /\ \E r \in RowsFor(synced_items, "p1", RADARR) : r.status = SUCCESS
    /\ << "p3", SONARR >> \in add_failures
    /\ forwards[<< "p3", SONARR >>] = 0
    /\ \E r \in RowsFor(synced_items, "p3", SONARR) : r.status = SUCCESS
    /\ obs.op = "baseline"

====
